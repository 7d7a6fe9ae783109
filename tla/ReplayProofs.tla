---------------------------- MODULE ReplayProofs ----------------------------
(***************************************************************************)
(* Proofs about Replay, for any histories, views of the exchange, plans    *)
(* and commands.                                                           *)
(***************************************************************************)
EXTENDS Replay, SumsProofs, WellFoundedInduction

Account == INSTANCE PaperLedgerProofs WITH ledger <- paper

-----------------------------------------------------------------------------
\* The ledger that PaperLedgerProofs speaks of is the one of the replays.
LEMMA LedgerWords ==
  /\ Account!Times = Times /\ Account!EmptyLedger = EmptyLedger
  /\ \A l, t : Account!CanEnter(l, t) <=> CanEnter(l, t)
  /\ \A l, s, t : Account!Enter(l, s, t) = Enter(l, s, t)
  /\ \A l, t : Account!Exit(l, t) = Exit(l, t)
BY DEF Account!Times, Times, Account!EmptyLedger, EmptyLedger, Account!Days, Days, Account!Day, Day,
       Account!CanEnter, CanEnter, Account!CooledDown, CooledDown, Account!Enter, Enter,
       Account!Exit, Exit, Account!Closed, Closed

\* The constants of a replay fit those of PaperLedger.
LEMMA AccountAssumed == Account!LedgerAssumption /\ Account!NoneAssumption
BY ReplayAssumption DEF Account!LedgerAssumption, Account!NoneAssumption, Account!OpenOrders,
                        Account!Times

\* The two modules mean the same sound ledger.
LEMMA SoundWords ==
  ASSUME NEW l, NEW t
  PROVE  Account!Sound(l, t) <=> Sound(l, t)
<1> USE DEF Account!Day, Account!Days, Account!Times, Day, Days, Times
<1>0. /\ Account!IsFiniteSet(l.done) <=> IsFiniteSet(l.done)
      /\ \A S : Account!Cardinality(S) = Cardinality(S)
  BY DEF Account!IsFiniteSet, IsFiniteSet, Account!Cardinality, Cardinality
<1>1. l \in Account!Ledgers <=> l \in Ledgers
  BY DEF Account!Ledgers, Account!OpenOrders, Account!ClosedOrders,
         Ledgers, OpenOrders, ClosedOrders
<1>3. /\ Account!Dominated(l, t) <=> Dominated(l, t)
      /\ Account!Apart(l) <=> Apart(l)
  BY DEF Account!Dominated, Dominated, Account!Apart, Apart
<1>4. Account!WithinBudget(l) <=> WithinBudget(l)
  <2>1. ASSUME NEW d
        PROVE  /\ Cardinality(TripsOn(l, d)) = Account!Cardinality(Account!TripsOn(l, d))
               /\ OpenOn(l, d) = Account!OpenOn(l, d)
    <3>1. TripsOn(l, d) = Account!TripsOn(l, d) /\ OpenOn(l, d) = Account!OpenOn(l, d)
      BY DEF Account!TripsOn, Account!OpenOn, TripsOn, OpenOn
    <3> QED BY <3>1, <1>0
  <2> QED BY <2>1 DEF Account!WithinBudget, WithinBudget
<1> QED BY <1>0, <1>1, <1>3, <1>4 DEF Account!Sound, Sound

\* The ledger with which a replay begins is sound.
LEMMA EmptyIsSound ==
  ASSUME NEW t \in Times
  PROVE  Sound(EmptyLedger, t)
BY Account!EmptyIsSound, AccountAssumed, LedgerWords, SoundWords

\* A sound ledger stays sound when time passes.
LEMMA SoundLater ==
  ASSUME NEW t \in Times, NEW later \in Times, t <= later, NEW l, Sound(l, t)
  PROVE  Sound(l, later)
BY Account!SoundLater, AccountAssumed, LedgerWords, SoundWords

\* An entry that the ledger allows keeps it sound.
LEMMA EnterIsSound ==
  ASSUME NEW t \in Times, NEW s \in Times, NEW l, Sound(l, t), CanEnter(l, t)
  PROVE  Sound(Enter(l, s, t), t)
BY Account!EnterIsSound, AccountAssumed, LedgerWords, SoundWords

\* An exit at or after its entry keeps the ledger sound.
LEMMA ExitIsSound ==
  ASSUME NEW t \in Times, NEW at \in Times, at <= t,
         NEW l, Sound(l, t), l.open # None, l.open.entry <= at
  PROVE  Sound(Exit(l, at), t)
BY Account!ExitIsSound, AccountAssumed, LedgerWords, SoundWords

-----------------------------------------------------------------------------
\* Days do not go back.
LEMMA DaysAreOrdered ==
  ASSUME NEW s \in Times, NEW t \in Times, s <= t
  PROVE  Day(s) \in Nat /\ Day(t) \in Nat /\ Day(s) <= Day(t)
<1>1. \A n \in Nat, k \in Nat \ {0} : (n \div k) \in Nat /\ k * (n \div k) <= n /\ n < k * (n \div k) + k
  BY SMT
<1> DEFINE k == DayLength
           a == s \div k
           b == t \div k
<1>0. s \in Nat /\ t \in Nat /\ k \in Nat \ {0}
  BY ReplayAssumption DEF Times
<1>2. /\ a \in Nat /\ b \in Nat /\ k \in Nat \ {0}
      /\ k * a <= s /\ t < k * b + k
  <2> HIDE DEF k
  <2> QED BY ONLY <1>0, <1>1
<1> HIDE DEF k, a, b
<1>3. k * a < k * (b + 1)
  <2>1. k * (b + 1) = k * b + k /\ k * a \in Nat /\ k * b \in Nat
    BY <1>2
  <2> QED BY <1>0, <1>2, <2>1
<1>4. \A x, y \in Nat : k * x < k * y => x < y
  BY <1>2, SMT
<1>5. a < b + 1
  BY <1>2, <1>3, <1>4
<1> QED BY <1>2, <1>5 DEF a, b, k, Day

\* An instant of the horizon falls on a day that the counters know.
LEMMA DayOfTime ==
  ASSUME NEW t \in Times
  PROVE  Day(t) \in Days
BY DEF Days

\* A nonempty set of natural numbers has a least element.
LEMMA LeastElement ==
  ASSUME NEW S \in SUBSET Nat, S # {}
  PROVE  \E x \in S : \A y \in S : x <= y
<1> DEFINE R == {ss \in Nat \X Nat : ss[1] < ss[2]}
<1>1. IsWellFoundedOn(R, Nat)
  BY NatLessThanWellFounded DEF OpToRel
<1> HIDE DEF R
<1>2. PICK x \in S : \A y \in S : ~ (<<y, x>> \in R)
  BY <1>1, WFMin, Zenon
<1>3. ASSUME NEW y \in S PROVE x <= y
  <2>1. x \in Nat /\ y \in Nat
    OBVIOUS
  <2>2. ~ (y < x)
    BY <1>2, <2>1 DEF R
  <2> QED BY <2>1, <2>2
<1> QED BY <1>3

\* Min and Max are what their names say, of instants.
LEMMA FirstTime ==
  ASSUME NEW S \in SUBSET Times, S # {}
  PROVE  Min(S) \in S /\ \A y \in S : Min(S) <= y
<1>1. S \in SUBSET Nat
  BY DEF Times
<1> QED BY <1>1, LeastElement DEF Min

\* The last of a set of times is one of them.
LEMMA LastTime ==
  ASSUME NEW S \in SUBSET Times, S # {}
  PROVE  Max(S) \in S /\ \A y \in S : Max(S) >= y
<1> DEFINE T == {Horizon - x : x \in S}
<1>1. Horizon \in Nat /\ \A x \in S : x \in Int /\ Horizon - x \in Nat
  BY ReplayAssumption DEF Times
<1>2. T \in SUBSET Nat
  BY <1>1, Zenon
<1>3. T # {}
  BY Zenon
<1>4. PICK t \in T : \A y \in T : t <= y
  BY <1>2, <1>3, LeastElement, Zenon
<1>5. PICK x \in S : t = Horizon - x
  BY Zenon
<1>6. ASSUME NEW y \in S PROVE x >= y
  <2>1. t <= Horizon - y
    BY <1>4, Zenon
  <2> QED BY <1>1, <1>5, <2>1
<1>7. \E z \in S : \A y \in S : z >= y
  BY <1>6, Zenon
<1> QED BY <1>7, Zenon DEF Max

-----------------------------------------------------------------------------
(***************************************************************************)
(* The account of a replay.  What its operations do to its ledger and its  *)
(* trades, whatever the prices.                                            *)
(***************************************************************************)
BookIs(b) ==
  /\ b = [capital |-> b.capital, equity |-> b.equity, starts |-> b.starts, position |-> b.position,
          trades |-> b.trades, ledger |-> b.ledger]
  /\ \E S : b.trades \in Seq(S)

\* The account with which a replay begins has no position and no trade.
LEMMA EmptyBookIs ==
  ASSUME NEW capital
  PROVE  /\ BookIs(EmptyBook(capital))
         /\ EmptyBook(capital).ledger = EmptyLedger
         /\ EmptyBook(capital).trades = <<>>
         /\ ~Holds(EmptyBook(capital))
<1>1. <<>> \in Seq({})
  OBVIOUS
<1> QED BY <1>1 DEF EmptyBook, BookIs, Holds, EmptyLedger

\* The start of a day touches neither the trades nor the position.
LEMMA DayStartedIs ==
  ASSUME NEW b, BookIs(b), NEW t
  PROVE  LET n == DayStarted(b, t)
         IN  /\ BookIs(n) /\ n.ledger = b.ledger /\ n.trades = b.trades
             /\ n.position = b.position
BY DEF BookIs, DayStarted

\* A close appends one trade and takes the exit to the ledger.
LEMMA CloseAtIs ==
  ASSUME NEW b, BookIs(b), NEW t, NEW reference, NEW reason
  PROVE  LET n == CloseAt(b, t, reference, reason)
         IN  /\ BookIs(n) /\ n.ledger = Exit(b.ledger, t) /\ n.position = None
             /\ \E x : n.trades = Append(b.trades, x) /\ x.to = t
<1> DEFINE n == CloseAt(b, t, reference, reason)
<1>1. PICK x : x.to = t /\ n = [b EXCEPT !.equity = @ + x.net, !.position = None,
                                         !.trades = Append(@, x), !.ledger = Exit(b.ledger, t)]
  <2> DEFINE p == b.position
             made == TradeOf(p.quantity, p.entry, reference, p.costs)
             trade == [market |-> made.market, spread |-> made.spread, slippage |-> made.slippage,
                       commission |-> made.commission, net |-> made.net,
                       symbol |-> p.symbol, from |-> p.time, to |-> t, reason |-> reason,
                       budget |-> p.budget]
  <2>1. trade.to = t
    OBVIOUS
  <2>2. n = [b EXCEPT !.equity = @ + trade.net, !.position = None,
                      !.trades = Append(@, trade), !.ledger = Exit(b.ledger, t)]
    BY DEF CloseAt
  <2> HIDE DEF trade
  <2> QED BY <2>1, <2>2
<1>2. PICK c, e, s, q, u, l : b = [capital |-> c, equity |-> e, starts |-> s, position |-> q,
                                   trades |-> u, ledger |-> l]
  BY DEF BookIs
<1>3. n = [capital |-> c, equity |-> e + x.net, starts |-> s, position |-> None,
           trades |-> Append(u, x), ledger |-> Exit(l, t)]
  BY <1>1, <1>2
<1>4. PICK S : u \in Seq(S)
  BY <1>2 DEF BookIs
<1>5. u \in Seq(S \union {x}) /\ x \in S \union {x}
  BY <1>4
<1>6. Append(u, x) \in Seq(S \union {x})
  BY <1>5, AppendProperties
<1>7. BookIs(n)
  BY <1>3, <1>6 DEF BookIs
<1> QED BY <1>1, <1>2, <1>3, <1>7

\* An opening takes the entry to the ledger and leaves the trades.
LEMMA OpenWithIs ==
  ASSUME NEW b, BookIs(b), NEW position
  PROVE  LET n == OpenWith(b, position)
         IN  /\ BookIs(n) /\ n.ledger = Enter(b.ledger, position.signal, position.time)
             /\ n.position = position /\ n.trades = b.trades
<1> DEFINE n == OpenWith(b, position)
<1>2. PICK c, e, s, q, u, l : b = [capital |-> c, equity |-> e, starts |-> s, position |-> q,
                                   trades |-> u, ledger |-> l]
  BY DEF BookIs
<1>3. n = [capital |-> c, equity |-> e, starts |-> s, position |-> position,
           trades |-> u, ledger |-> Enter(l, position.signal, position.time)]
  <2> DEFINE m == Enter(b.ledger, position.signal, position.time)
  <2>1. n = [b EXCEPT !.position = position, !.ledger = m]
    BY DEF OpenWith
  <2>2. m = Enter(l, position.signal, position.time)
    BY <1>2
  <2> HIDE DEF m, n
  <2> QED BY <1>2, <2>1, <2>2
<1>4. BookIs(n)
  BY <1>2, <1>3 DEF BookIs
<1> QED BY <1>2, <1>3, <1>4

-----------------------------------------------------------------------------
(***************************************************************************)
(* The invariant behind ReplayObeysLedger.  The position of V2 was opened  *)
(* at a bar of its symbol and the one of V3 at a section, so that the end  *)
(* of the data does not come before it; V2, which counts the trades of a   *)
(* day and not its entries, has entered at most once more than that.       *)
(***************************************************************************)
Early == {"market", "recover", "freeze", "freezing", "collect", "prepare"}
Late == {"begin", "bars", "deliver"}

RunIs(r) ==
  /\ r = [protocol |-> r.protocol, pairs |-> r.pairs, collect |-> r.collect, fee |-> r.fee,
          rules |-> r.rules, left |-> r.left, kept |-> r.kept]
  /\ r.protocol \in {"V1", "V2", "V3"}

Placed(b) ==
  Holds(b) =>
    /\ b.position.time = b.ledger.open.entry
    /\ run.protocol = "V2" =>
         /\ b.position.symbol \in Range(SymbolsOf(run.pairs)) \intersect disk.history
         /\ b.position.time \in BarTimes(market, b.position.symbol)
    /\ run.protocol = "V3" => b.position.time \in Timeline

Counted(b, t) ==
  /\ b.ledger.entries[Day(t)] <= Cardinality(TradesOn(b, Day(t))) + (IF Holds(b) THEN 1 ELSE 0)
  /\ \A d \in Days : d > Day(t) => b.ledger.entries[d] = 0

Kept(b, t) ==
  /\ BookIs(b)
  /\ run.protocol # "V1" => Sound(b.ledger, t) /\ Placed(b)
  /\ run.protocol = "V2" => Counted(b, t)

LedgerKept ==
  /\ now \in Times
  /\ pc \in Early \union Late \union {"idle"}
  /\ BookIs(book)
  /\ pc # "idle" => RunIs(run)
  /\ pc \in Early \union {"idle"} => book.ledger = EmptyLedger
  /\ pc \in Late /\ run.protocol # "V1" => Sound(book.ledger, now)
  /\ pc = "bars" => Kept(book, now)

\* The trades of a day are finitely many.
LEMMA TradesAreFinite ==
  ASSUME NEW b, BookIs(b), NEW d
  PROVE  IsFiniteSet(TradesOn(b, d)) /\ Cardinality(TradesOn(b, d)) \in Nat
<1>1. PICK S : b.trades \in Seq(S)
  BY DEF BookIs
<1>2. IsFiniteSet(1 .. Len(b.trades))
  BY <1>1, FS_Interval
<1>3. TradesOn(b, d) \in SUBSET (1 .. Len(b.trades))
  BY <1>1 DEF TradesOn
<1> QED BY <1>2, <1>3, FS_Subset, FS_CardinalityType

\* One more trade is one more trade of its day.
LEMMA TradesOnAppend ==
  ASSUME NEW b, BookIs(b), NEW n, NEW x, n.trades = Append(b.trades, x), NEW d, Day(x.to) = d
  PROVE  Cardinality(TradesOn(n, d)) = Cardinality(TradesOn(b, d)) + 1
<1>1. PICK S : b.trades \in Seq(S)
  BY DEF BookIs
<1> DEFINE k == Len(b.trades) + 1
<1>2. b.trades \in Seq(S \union {x}) /\ x \in S \union {x}
  BY <1>1
<1>3. /\ DOMAIN n.trades = DOMAIN b.trades \union {k} /\ k \notin DOMAIN b.trades
      /\ n.trades[k] = x
      /\ \A i \in DOMAIN b.trades : n.trades[i] = b.trades[i]
  <2>1. /\ Len(n.trades) = k /\ n.trades \in Seq(S \union {x}) /\ n.trades[k] = x
        /\ \A i \in 1 .. Len(b.trades) : n.trades[i] = b.trades[i]
    BY <1>2, AppendProperties
  <2> QED BY <1>1, <2>1
<1> HIDE DEF k
<1>4. TradesOn(n, d) = TradesOn(b, d) \union {k} /\ k \notin TradesOn(b, d)
  <2>1. TradesOn(b, d) = {i \in DOMAIN b.trades : Day(b.trades[i].to) = d}
    BY DEF TradesOn
  <2>2. TradesOn(n, d) = {i \in DOMAIN n.trades : Day(n.trades[i].to) = d}
    BY DEF TradesOn
  <2>3. \A i \in DOMAIN b.trades : Day(n.trades[i].to) = Day(b.trades[i].to)
    BY <1>3, Zenon
  <2>4. Day(n.trades[k].to) = d
    BY <1>3
  <2> HIDE DEF TradesOn
  <2> QED BY ONLY <1>3, <2>1, <2>2, <2>3, <2>4
<1>5. IsFiniteSet(TradesOn(b, d))
  BY TradesAreFinite
<1>6. PICK T : T = TradesOn(b, d)
  OBVIOUS
<1>7. Cardinality(T \union {k}) = Cardinality(T) + 1
  BY <1>4, <1>5, <1>6, FS_AddElement
<1> QED BY <1>4, <1>6, <1>7

\* A day begins without an entry.
LEMMA KeptLater ==
  ASSUME NEW s \in Times, NEW t \in Times, s <= t, NEW b, Kept(b, s)
  PROVE  Kept(DayStarted(b, t), t)
<1> DEFINE n == DayStarted(b, t)
<1>1. BookIs(n) /\ n.ledger = b.ledger /\ n.trades = b.trades /\ n.position = b.position
  BY DayStartedIs DEF Kept
<1> HIDE DEF n
<1>2. ASSUME run.protocol # "V1" PROVE Sound(n.ledger, t) /\ Placed(n)
  BY <1>1, <1>2, SoundLater DEF Kept, Placed, Holds
<1>3. ASSUME run.protocol = "V2" PROVE Counted(n, t)
  <2>1. Counted(b, s) /\ b.ledger \in Ledgers
    BY <1>3 DEF Kept, Sound
  <2>2. /\ Day(s) <= Day(t) /\ Day(s) \in Nat /\ Day(t) \in Nat /\ Day(s) \in Days /\ Day(t) \in Days
        /\ Days \subseteq Int
    <3>1. \A d \in Days : d \in Int
      BY DaysAreOrdered DEF Days, Times
    <3> QED BY <3>1, DaysAreOrdered, DayOfTime
  <2>3. \A d : TradesOn(n, d) = TradesOn(b, d)
    BY <1>1 DEF TradesOn
  <2>4. Holds(n) = Holds(b)
    BY <1>1 DEF Holds
  <2>5. \A d : Cardinality(TradesOn(b, d)) \in Nat
    BY TradesAreFinite DEF Kept
  <2>6. \A d \in Days : b.ledger.entries[d] \in Nat
    BY <2>1 DEF Ledgers
  <2>7. CASE Day(s) = Day(t)
    BY <1>1, <2>1, <2>3, <2>4, <2>7 DEF Counted
  <2>8. CASE Day(s) < Day(t)
    BY <1>1, <2>1, <2>2, <2>3, <2>5, <2>6, <2>8 DEF Counted
  <2> QED BY <2>2, <2>7, <2>8
<1> QED BY <1>1, <1>2, <1>3, Zenon DEF Kept, n

\* What an exit at the time of the bar keeps.
LEMMA KeptExit ==
  ASSUME NEW t \in Times, NEW b, Kept(b, t), run.protocol # "V1" => Holds(b), NEW reference, NEW reason
  PROVE  Kept(CloseAt(b, t, reference, reason), t) /\ ~Holds(CloseAt(b, t, reference, reason))
<1> DEFINE n == CloseAt(b, t, reference, reason)
<1>1. PICK x : /\ BookIs(n) /\ n.ledger = Exit(b.ledger, t) /\ n.trades = Append(b.trades, x)
               /\ x.to = t
  BY CloseAtIs DEF Kept
<1> HIDE DEF n
<1>2. n.ledger.open = None /\ n.ledger.entries = b.ledger.entries
  BY <1>1 DEF Exit
<1>3. ~Holds(n)
  BY <1>2 DEF Holds
<1>4. ASSUME run.protocol # "V1" PROVE Sound(n.ledger, t) /\ Placed(n)
  <2>1. Sound(b.ledger, t) /\ b.ledger.open # None
    BY <1>4 DEF Kept, Holds
  <2>2. b.ledger.open.entry <= t
    BY <2>1 DEF Sound, Dominated
  <2>3. t <= t
    BY DEF Times
  <2> QED BY <1>1, <1>3, <2>1, <2>2, <2>3, ExitIsSound DEF Placed
<1>5. ASSUME run.protocol = "V2" PROVE Counted(n, t)
  <2>1. Counted(b, t) /\ Holds(b) /\ BookIs(b)
    BY <1>5 DEF Kept
  <2>2. Cardinality(TradesOn(n, Day(t))) = Cardinality(TradesOn(b, Day(t))) + 1
    BY <1>1, <2>1, TradesOnAppend
  <2>3. Cardinality(TradesOn(b, Day(t))) \in Nat
    BY <2>1, TradesAreFinite
  <2> QED BY <1>2, <1>3, <2>1, <2>2, <2>3 DEF Counted
<1> QED BY <1>1, <1>3, <1>4, <1>5, Zenon DEF Kept, n

\* What an entry at the time of the bar keeps.
LEMMA KeptEntry ==
  ASSUME NEW t \in Times, NEW b, Kept(b, t), ~Holds(b), NEW p, p.time = t, p.signal \in Times,
         run.protocol # "V1" => CanEnter(b.ledger, t),
         run.protocol = "V2" =>
           /\ p.symbol \in Range(SymbolsOf(run.pairs)) \intersect disk.history
           /\ t \in BarTimes(market, p.symbol),
         run.protocol = "V3" => t \in Timeline
  PROVE  Kept(OpenWith(b, p), t) /\ Holds(OpenWith(b, p))
<1> DEFINE n == OpenWith(b, p)
<1>1. /\ BookIs(n) /\ n.ledger = Enter(b.ledger, p.signal, t) /\ n.trades = b.trades
      /\ n.position = p
  BY OpenWithIs DEF Kept
<1> HIDE DEF n
<1>2. /\ n.ledger.open = [signal |-> p.signal, entry |-> t]
      /\ n.ledger.entries = [b.ledger.entries EXCEPT ![Day(t)] = @ + 1]
  BY <1>1 DEF Enter
<1>3. Holds(n)
  <2>1. n.ledger.open \in [signal : 0 .. Horizon, entry : 0 .. Horizon]
    BY <1>2 DEF Times
  <2> QED BY <2>1, ReplayAssumption DEF Holds
<1>4. ASSUME run.protocol # "V1" PROVE Sound(n.ledger, t) /\ Placed(n)
  <2>1. Sound(n.ledger, t)
    BY <1>1, <1>4, EnterIsSound DEF Kept
  <2> QED BY <1>1, <1>2, <2>1 DEF Placed
<1>5. ASSUME run.protocol = "V2" PROVE Counted(n, t)
  <2>1. Counted(b, t) /\ b.ledger \in Ledgers /\ BookIs(b)
    BY <1>5 DEF Kept, Sound
  <2>2. \A d : TradesOn(n, d) = TradesOn(b, d)
    BY <1>1 DEF TradesOn
  <2>3. Cardinality(TradesOn(b, Day(t))) \in Nat
    BY <2>1, TradesAreFinite
  <2>4. Day(t) \in Days /\ Day(t) \in Int
    BY DayOfTime, DaysAreOrdered DEF Times
  <2>5. b.ledger.entries \in [Days -> Nat]
    BY <2>1 DEF Ledgers
  <2>6. n.ledger.entries[Day(t)] = b.ledger.entries[Day(t)] + 1
    BY <1>2, <2>4, <2>5
  <2>7. \A d \in Days : d > Day(t) => n.ledger.entries[d] = b.ledger.entries[d]
    BY <1>2, <2>4, <2>5
  <2>8. b.ledger.entries[Day(t)] \in Nat
    BY <2>4, <2>5
  <2> QED BY <1>3, <2>1, <2>2, <2>3, <2>6, <2>7, <2>8 DEF Counted
<1> QED BY <1>1, <1>3, <1>4, <1>5, Zenon DEF Kept, n

-----------------------------------------------------------------------------
\* An exit closes the position it holds, if any, at the time of the bar.
LEMMA SpotExitIs ==
  ASSUME NEW b, NEW t
  PROVE  \/ SpotExit(b, t) = b
         \/ Holds(b) /\ \E reference, reason : SpotExit(b, t) = CloseAt(b, t, reference, reason)
<1> DEFINE p == b.position
           bar == given[market].bars[p.symbol][t]
           touched == Barrier(p, bar)
           reference == IF touched = "STOP" THEN p.stop ELSE p.target
<1>1. AtBarrier(b, t, touched) = CloseAt(b, t, reference, touched)
  BY DEF AtBarrier
<1>2. SpotExit(b, t) =
        IF ~Holds(b) THEN b
        ELSE CASE bar = None -> b
               [] bar # None /\ touched # "NONE" -> AtBarrier(b, t, touched)
               [] bar # None /\ touched = "NONE" /\ t - p.time >= HoldLimit ->
                    CloseAt(b, t, bar.close, "TIMEOUT")
               [] OTHER -> b
  BY DEF SpotExit
<1> HIDE DEF p, bar, touched, reference
<1> QED BY <1>1, <1>2

\* What an exit of V3 does: nothing, or a close of the open position.
LEMMA RelativeExitIs ==
  ASSUME NEW b, NEW t
  PROVE  \/ RelativeExit(b, t) = b
         \/ Holds(b) /\ \E reference, reason : RelativeExit(b, t) = CloseAt(b, t, reference, reason)
<1> SUFFICES ASSUME Holds(b), RelativeExit(b, t) # b
             PROVE  \E reference, reason : RelativeExit(b, t) = CloseAt(b, t, reference, reason)
  BY DEF RelativeExit
<1> QED BY DEF RelativeExit

\* An entry opens a position at the time of the bar, which may touch a barrier in
\* that very bar.
LEMMA SpotEntryIs ==
  ASSUME NEW b, NEW t
  PROVE  \/ SpotEntry(b, t) = b
         \/ \E p : /\ ~Holds(b)
                   /\ DayActive(b, Day(t))
                   /\ run.protocol = "V2" => CooledDown(b.ledger, t)
                   /\ p.time = t /\ p.signal = t /\ p.symbol \in SpotCandidates(t)
                   /\ \/ SpotEntry(b, t) = OpenWith(b, p)
                      \/ \E reference, reason :
                           SpotEntry(b, t) = CloseAt(OpenWith(b, p), t, reference, reason)
<1> DEFINE candidates == SpotCandidates(t)
           leading == {s \in candidates : \A r \in candidates :
                         \/ SpotScore(s, t) > SpotScore(r, t)
                         \/ /\ SpotScore(s, t) = SpotScore(r, t)
                            /\ Position(Alphabet, s) <= Position(Alphabet, r)}
           best == CHOOSE s \in leading : TRUE
           signal == SignalAt(market, PairNamed(best), t)
           bar == given[market].bars[best][t]
           c == CostsOf(best)
           stop == bar.open - (signal.entry - signal.stop)
           bought == Bought(bar.open, c)
           quantity == SizeOf(b.equity, bought, stop, bought * (D + c.fee), 2 * (c.fee + c.slip),
                              RulesOf(best))
           p == [symbol |-> best, signal |-> t, time |-> t, quantity |-> quantity,
                 entry |-> bar.open, stop |-> stop, costs |-> c,
                 target |-> bar.open + (signal.target - signal.entry),
                 budget |-> b.equity \div RiskFraction]
           opened == OpenWith(b, p)
           barrier == Barrier(opened.position, bar)
           refused == \/ Holds(b)
                      \/ ~DayActive(b, Day(t))
                      \/ run.protocol = "V2" /\ ~CooledDown(b.ledger, t)
                      \/ leading = {}
           reference == IF barrier = "STOP" THEN opened.position.stop ELSE opened.position.target
<1>1. SpotEntry(b, t) = IF refused THEN b
                        ELSE IF quantity = 0 THEN b
                        ELSE IF barrier = "NONE" THEN opened
                        ELSE AtBarrier(opened, t, barrier)
  BY DEF SpotEntry
<1>2. p.time = t /\ p.signal = t /\ p.symbol = best
  OBVIOUS
<1>3. ASSUME leading # {} PROVE best \in SpotCandidates(t)
  <2> HIDE DEF best
  <2>1. best = CHOOSE s \in leading : TRUE
    BY DEF best
  <2> HIDE DEF leading
  <2>2. best \in leading
    BY <1>3, <2>1
  <2> QED BY <2>2 DEF leading
<1>4. AtBarrier(opened, t, barrier) = CloseAt(opened, t, reference, barrier)
  BY DEF AtBarrier
<1>5. opened = OpenWith(b, p)
  OBVIOUS
<1>6. ~refused => /\ ~Holds(b) /\ DayActive(b, Day(t)) /\ leading # {}
                  /\ run.protocol = "V2" => CooledDown(b.ledger, t)
  OBVIOUS
<1> HIDE DEF candidates, leading, best, quantity, p, opened, barrier, refused, reference
<1> QED BY <1>1, <1>2, <1>3, <1>4, <1>5, <1>6

\* What an entry of V3 does: nothing, or an opening that the ledger allows.
LEMMA RelativeEntryIs ==
  ASSUME NEW b, NEW t
  PROVE  \/ RelativeEntry(b, t) = b
         \/ \E p : /\ ~Holds(b)
                   /\ CanEnter(b.ledger, t)
                   /\ p.time = t /\ p.signal = t - Minutes.m5
                   /\ RelativeEntry(b, t) = OpenWith(b, p)
<1> DEFINE bars == [s \in Symbols |-> given[market].bars[s][t - Minutes.m5]]
           decision == Evaluate(Section(t), Profiles, bars, Config.leaders)
           f == decision.candidate.feature
           reference == bars[f.symbol].close
           c == CostsOf(f.symbol)
           distance == Max({3 * f.atr, (6 * Fine * reference) \div 1000}) \div 2
           stop == Ticks(Fine * reference - distance)
           bought == Bought(reference, c)
           quantity == SizeOf(b.equity, bought, stop, bought * D, 2 * (c.fee + c.slip + c.half),
                              RulesOf(f.symbol))
           p == [symbol |-> f.symbol, signal |-> t - Minutes.m5, time |-> t,
                 quantity |-> quantity, entry |-> reference, stop |-> stop, costs |-> c,
                 target |-> Ticks(Fine * reference + 2 * distance),
                 budget |-> b.equity \div RiskFraction]
           refused == \/ Holds(b)
                      \/ ~decision.riskOn
                      \/ ~InsideLimits(b, Day(t))
                      \/ ~CanEnter(b.ledger, t)
                      \/ decision.candidate = None
<1>1. RelativeEntry(b, t) = IF refused THEN b ELSE IF quantity = 0 THEN b ELSE OpenWith(b, p)
  BY DEF RelativeEntry
<1>2. p.time = t /\ p.signal = t - Minutes.m5
  OBVIOUS
<1>3. ~refused => ~Holds(b) /\ CanEnter(b.ledger, t)
  OBVIOUS
<1> HIDE DEF quantity, p, refused
<1> QED BY <1>1, <1>2, <1>3

\* A bar of V1 or V2: the exit and the entry.
LEMMA KeptSpotExit ==
  ASSUME NEW t \in Times, NEW b, Kept(b, t)
  PROVE  Kept(SpotExit(b, t), t)
BY SpotExitIs, KeptExit

\* An entry of V1 or V2 keeps the account.
LEMMA KeptSpotEntry ==
  ASSUME NEW t \in Times, NEW b, Kept(b, t), run.protocol \in {"V1", "V2"}
  PROVE  Kept(SpotEntry(b, t), t)
<1> SUFFICES ASSUME SpotEntry(b, t) # b PROVE Kept(SpotEntry(b, t), t)
  OBVIOUS
<1>1. PICK p : /\ ~Holds(b)
               /\ DayActive(b, Day(t))
               /\ run.protocol = "V2" => CooledDown(b.ledger, t)
               /\ p.time = t /\ p.signal = t /\ p.symbol \in SpotCandidates(t)
               /\ \/ SpotEntry(b, t) = OpenWith(b, p)
                  \/ \E reference, reason :
                       SpotEntry(b, t) = CloseAt(OpenWith(b, p), t, reference, reason)
  BY SpotEntryIs
<1>2. ASSUME run.protocol = "V2" PROVE CanEnter(b.ledger, t)
  <2>1. Counted(b, t) /\ b.ledger \in Ledgers /\ BookIs(b)
    BY <1>2 DEF Kept, Sound
  <2>2. Cardinality(TradesOn(b, Day(t))) < MaxEntries
    BY <1>1, <1>2 DEF DayActive
  <2>3. Cardinality(TradesOn(b, Day(t))) \in Nat /\ MaxEntries \in Nat
    BY <2>1, TradesAreFinite, ReplayAssumption
  <2>4. b.ledger.entries[Day(t)] \in Nat
    BY <2>1, DayOfTime DEF Ledgers
  <2>5. b.ledger.entries[Day(t)] < MaxEntries
    BY <1>1, <2>1, <2>2, <2>3, <2>4 DEF Counted
  <2> QED BY <1>1, <1>2, <2>5 DEF CanEnter, Holds
<1>3. /\ p.symbol \in Range(SymbolsOf(run.pairs)) \intersect disk.history
      /\ t \in BarTimes(market, p.symbol)
  BY <1>1 DEF SpotCandidates, BarTimes
<1>4. Kept(OpenWith(b, p), t) /\ Holds(OpenWith(b, p))
  BY <1>1, <1>2, <1>3, KeptEntry
<1> QED BY <1>1, <1>4, KeptExit

\* A section of V3: the exit and the entry.
LEMMA KeptRelativeExit ==
  ASSUME NEW t \in Times, NEW b, Kept(b, t)
  PROVE  Kept(RelativeExit(b, t), t)
BY RelativeExitIs, KeptExit

\* An entry of V3 keeps the account.
LEMMA KeptRelativeEntry ==
  ASSUME NEW t \in Times, NEW b, Kept(b, t), run.protocol = "V3", t \in Timeline
  PROVE  Kept(RelativeEntry(b, t), t)
<1> SUFFICES ASSUME RelativeEntry(b, t) # b PROVE Kept(RelativeEntry(b, t), t)
  OBVIOUS
<1>1. PICK p : /\ ~Holds(b)
               /\ CanEnter(b.ledger, t)
               /\ p.time = t /\ p.signal = t - Minutes.m5
               /\ RelativeEntry(b, t) = OpenWith(b, p)
  BY RelativeEntryIs
<1>2. p.signal \in Times
  <2>1. t - Minutes.m5 >= Validation
    BY DEF Timeline
  <2>2. Minutes.m5 \in Nat /\ Validation \in Nat /\ Horizon \in Nat
    BY ReplayAssumption, StrategyAssumption
  <2> QED BY <1>1, <2>1, <2>2 DEF Times
<1> QED BY <1>1, <1>2, KeptEntry

\* The next bar is an instant that does not lie back.
LEMMA NextBar ==
  ASSUME now \in Times, Ahead # {}
  PROVE  Min(Ahead) \in Timeline /\ Min(Ahead) \in Times /\ now <= Min(Ahead)
<1>1. Timeline \in SUBSET Times
  BY DEF Timeline, BarTimes
<1>2. Ahead \in SUBSET Times /\ Ahead \subseteq Timeline
  BY <1>1 DEF Ahead
<1>3. Min(Ahead) \in Ahead
  BY <1>2, FirstTime
<1> QED BY <1>2, <1>3 DEF Ahead, Times

\* One turn of the loop of a replay keeps the account.
LEMMA BarsKeep ==
  ASSUME LedgerKept, SpotBar \/ RelativeBar
  PROVE  LedgerKept'
<1> DEFINE t == Min(Ahead)
<1>1. /\ pc = "bars" /\ Ahead # {} /\ now' = t
      /\ UNCHANGED <<pc, run, disk, live, market, given, reports, commands>>
      /\ now \in Times /\ Kept(book, now) /\ RunIs(run)
  BY DEF SpotBar, RelativeBar, LedgerKept
<1>2. t \in Timeline /\ t \in Times /\ now <= t
  BY <1>1, NextBar
<1> HIDE DEF t
<1>3. Kept(DayStarted(book, t), t)
  BY <1>1, <1>2, KeptLater
<1>4. Kept(book', t)
  <2>1. CASE SpotBar
    <3>1. run.protocol \in {"V1", "V2"} /\ book' = SpotEntry(SpotExit(DayStarted(book, t), t), t)
      BY <1>1, <2>1 DEF SpotBar, t, RunIs
    <3> QED BY <1>2, <1>3, <3>1, KeptSpotExit, KeptSpotEntry
  <2>2. CASE RelativeBar
    <3>1. run.protocol = "V3" /\ book' = RelativeEntry(RelativeExit(DayStarted(book, t), t), t)
      BY <1>1, <2>2 DEF RelativeBar, t
    <3> QED BY <1>2, <1>3, <3>1, KeptRelativeExit, KeptRelativeEntry
  <2> QED BY <2>1, <2>2
<1>5. Kept(book, now)'
  BY <1>1, <1>4 DEF Kept, Placed, Counted, Timeline, BarTimes, TradesOn
<1> QED BY <1>1, <1>2, <1>5 DEF LedgerKept, Kept, RunIs, Late, Early

\* The last bar of the position comes neither before its entry nor after the last
\* bar of the replay.
LEMMA EndKeeps ==
  ASSUME now \in Times, Kept(book, now), Ahead = {}, RunIs(run)
  PROVE  /\ BookIs(EndOfData(book))
         /\ run.protocol # "V1" => Sound(EndOfData(book).ledger, now)
<1> DEFINE b == book
           p == b.position
           last == Max(BarTimes(market, p.symbol))
           final == given[market].bars[p.symbol][Max(Timeline) - Minutes.m5]
           atLast == CloseAt(b, last, given[market].bars[p.symbol][last].close, "END_OF_DATA")
           atFinal == CloseAt(b, Max(Timeline), final.close, "END_OF_DATA")
<1>1. EndOfData(b) = IF ~Holds(b) THEN b
                     ELSE CASE run.protocol # "V3" -> atLast
                            [] run.protocol = "V3" /\ final # None -> atFinal
                            [] OTHER -> b
  BY DEF EndOfData
<1>0. BookIs(b)
  BY DEF Kept
<1>2. BookIs(b) /\ BookIs(atLast) /\ BookIs(atFinal)
  BY <1>0, CloseAtIs
<1>3. atLast.ledger = Exit(b.ledger, last) /\ atFinal.ledger = Exit(b.ledger, Max(Timeline))
  <2> HIDE DEF b, last, final
  <2>1. atLast.ledger = Exit(b.ledger, last)
    BY <1>0, CloseAtIs
  <2>2. atFinal.ledger = Exit(b.ledger, Max(Timeline))
    BY <1>0, CloseAtIs
  <2> QED BY <2>1, <2>2
<1> HIDE DEF atLast, atFinal, final
<1>4. Timeline \in SUBSET Times /\ \A x \in Timeline : x <= now
  BY DEF Timeline, BarTimes, Ahead, Times
<1>5. ASSUME run.protocol = "V2", Holds(b) PROVE Sound(atLast.ledger, now)
  <2>1. /\ p.time = b.ledger.open.entry /\ Sound(b.ledger, now) /\ b.ledger.open # None
        /\ p.symbol \in Range(SymbolsOf(run.pairs)) \intersect disk.history
        /\ p.time \in BarTimes(market, p.symbol)
    BY <1>5 DEF Kept, Placed, Holds
  <2>2. BarTimes(market, p.symbol) \subseteq Timeline /\ BarTimes(market, p.symbol) \in SUBSET Times
    BY <1>5, <2>1 DEF Timeline, BarTimes
  <2>3. last \in BarTimes(market, p.symbol) /\ p.time <= last
    BY <2>1, <2>2, LastTime DEF Times
  <2>4. last \in Times /\ last <= now
    BY <1>4, <2>2, <2>3
  <2> QED BY <1>3, <2>1, <2>3, <2>4, ExitIsSound
<1>6. ASSUME run.protocol = "V3", Holds(b) PROVE Sound(atFinal.ledger, now)
  <2>1. /\ p.time = b.ledger.open.entry /\ Sound(b.ledger, now) /\ b.ledger.open # None
        /\ p.time \in Timeline
    BY <1>6 DEF Kept, Placed, Holds
  <2>2. Max(Timeline) \in Timeline /\ p.time <= Max(Timeline)
    BY <1>4, <2>1, LastTime DEF Times
  <2>3. Max(Timeline) \in Times /\ Max(Timeline) <= now
    BY <1>4, <2>2
  <2> QED BY <1>3, <2>1, <2>2, <2>3, ExitIsSound
<1>7. run.protocol # "V1" => Sound(b.ledger, now)
  BY DEF Kept
<1> HIDE DEF b
<1>8. BookIs(EndOfData(b)) /\ (run.protocol # "V1" => Sound(EndOfData(b).ledger, now))
  BY <1>1, <1>2, <1>5, <1>6, <1>7 DEF RunIs
<1> QED BY <1>8 DEF b

\* The end of a replay keeps the account.
LEMMA FinishKeeps ==
  ASSUME LedgerKept, FinishReplay
  PROVE  LedgerKept'
<1>1. /\ pc = "bars" /\ Ahead = {} /\ book' = EndOfData(book) /\ pc' \in {"begin", "deliver"}
      /\ \E kept, left : run' = [run EXCEPT !.left = left, !.kept = kept]
      /\ now' = now
  BY DEF FinishReplay
<1>2. now \in Times /\ Kept(book, now) /\ RunIs(run)
  BY <1>1 DEF LedgerKept, Late
<1>3. /\ BookIs(book')
      /\ run.protocol # "V1" => Sound(book'.ledger, now)
  BY <1>1, <1>2, EndKeeps
<1>4. RunIs(run') /\ run'.protocol = run.protocol
  BY <1>1, <1>2 DEF RunIs
<1> QED BY <1>1, <1>2, <1>3, <1>4 DEF LedgerKept, Late, Early

\* Before its replays a command has an empty account, and it has one again when a
\* replay begins.
LEMMA CommandsKeep ==
  ASSUME LedgerKept,
         \/ Move \/ BinanceCheck \/ StartV1 \/ StartV2 \/ StartV3 \/ WriteMarket \/ Recover
         \/ BeginFreeze \/ EndFreeze \/ Collect \/ Prepare \/ UNCHANGED replayVars
  PROVE  LedgerKept'
<1> USE DEF LedgerKept, Early, Late
<1>1. CASE Move \/ BinanceCheck
  <2>1. pc = "idle" /\ UNCHANGED <<now, book, pc, run>>
    BY <1>1 DEF Move, BinanceCheck
  <2> QED BY <2>1
<1>2. CASE StartV1 \/ StartV2 \/ StartV3
  <2>1. ASSUME NEW protocol \in {"V1", "V2", "V3"}, NEW pairs, NEW collect, NEW fee
        PROVE  RunIs(Started(protocol, pairs, collect, fee))
    BY DEF Started, RunIs
  <2>2. \E point \in Early, protocol \in {"V1", "V2", "V3"} : \E pairs, collect, fee :
          Launch(point, Started(protocol, pairs, collect, fee))
    <3>1. CASE StartV1
      BY <3>1, Zenon DEF StartV1
    <3>2. CASE StartV2
      BY <3>2, Zenon DEF StartV2
    <3>3. CASE StartV3
      BY <3>3, Zenon DEF StartV3
    <3> QED BY <1>2, <3>1, <3>2, <3>3
  <2>3. pc = "idle" /\ pc' \in Early /\ RunIs(run') /\ UNCHANGED <<now, book>>
    BY <2>1, <2>2 DEF Launch
  <2> QED BY <2>3
<1>3. CASE WriteMarket
  <2>1. /\ pc = "market" /\ UNCHANGED <<now, book>>
        /\ pc' = "idle" \/ (pc' = "freeze" /\ \E x : run' = [run EXCEPT !.pairs = x])
    BY <1>3 DEF WriteMarket
  <2> QED BY <2>1 DEF RunIs
<1>4. CASE Recover \/ BeginFreeze \/ EndFreeze \/ Collect
  <2>1. /\ pc \in Early /\ pc' \in Early /\ UNCHANGED <<now, book>>
        /\ run' = run \/ \E x : run' = [run EXCEPT !.pairs = x]
    BY <1>4 DEF Recover, BeginFreeze, EndFreeze, Collect
  <2> QED BY <2>1 DEF RunIs
<1>5. CASE Prepare
  <2>1. /\ pc = "prepare" /\ UNCHANGED <<now, book>>
        /\ pc' = "idle" \/ (pc' = "begin" /\ \E x, y : run' = [run EXCEPT !.pairs = x, !.rules = y])
    BY <1>5 DEF Prepare
  <2>2. Sound(book.ledger, now)
    BY <2>1, EmptyIsSound
  <2> QED BY <2>1, <2>2 DEF RunIs
<1>6. CASE UNCHANGED replayVars
  BY <1>6 DEF replayVars, Kept, Placed, Counted, Timeline, BarTimes, TradesOn
<1> QED BY <1>1, <1>2, <1>3, <1>4, <1>5, <1>6

\* So do the beginning of a replay, its report and a death.
LEMMA ReplaysKeep ==
  ASSUME LedgerKept, BeginReplay \/ DeliverV1 \/ DeliverV2 \/ DeliverV3 \/ Kill
  PROVE  LedgerKept'
<1> USE DEF LedgerKept, Early, Late
<1>0. 0 \in Times
  BY ReplayAssumption DEF Times
<1>1. CASE BeginReplay
  <2>1. /\ pc = "begin" /\ now' = 0 /\ book' = EmptyBook(Config.capital) /\ pc' = "bars"
        /\ UNCHANGED <<run, disk, live, market, given>>
    BY <1>1 DEF BeginReplay
  <2>2. /\ BookIs(book') /\ book'.ledger = EmptyLedger /\ book'.trades = <<>>
        /\ ~Holds(book')
    BY <2>1, EmptyBookIs
  <2>3. Sound(EmptyLedger, 0)
    BY <1>0, EmptyIsSound
  <2>4. Counted(book', 0)
    <3>1. Cardinality(TradesOn(book', Day(0))) \in Nat
      BY <2>2, TradesAreFinite
    <3>2. \A d \in Days : EmptyLedger.entries[d] = 0
      BY DEF EmptyLedger
    <3> QED BY <1>0, <2>2, <3>1, <3>2, DayOfTime DEF Counted
  <2>5. Kept(book', 0)
    BY <2>2, <2>3, <2>4 DEF Kept, Placed
  <2>6. Kept(book, now)'
    BY <2>1, <2>5 DEF Kept, Placed, Counted, Timeline, BarTimes, TradesOn
  <2>7. RunIs(run)'
    BY <2>1 DEF RunIs
  <2> QED BY <1>0, <2>1, <2>6, <2>7 DEF Kept
<1>2. CASE DeliverV1 \/ DeliverV2 \/ DeliverV3 \/ Kill
  <2>1. now' = 0 /\ book' = EmptyBook(0) /\ pc' = "idle"
    BY <1>2 DEF DeliverV1, DeliverV2, DeliverV3, Delivered, Kill
  <2> QED BY <1>0, <2>1, EmptyBookIs
<1> QED BY <1>1, <1>2

\* Every step keeps the account.
LEMMA LedgerKeptStep ==
  ASSUME LedgerKept, [ReplayNext]_replayVars
  PROVE  LedgerKept'
BY BarsKeep, FinishKeeps, CommandsKeep, ReplaysKeep DEF ReplayNext

\* The invariant holds before the first command.
LEMMA LedgerKeptInit == ReplayInit => LedgerKept
BY EmptyBookIs, ReplayAssumption DEF ReplayInit, LedgerKept, Early, Late, Times

\* The inductive invariant of the accounts of the replays.
THEOREM ReplaysKeepLedger == ReplaySpec => []LedgerKept
BY LedgerKeptInit, LedgerKeptStep, PTL DEF ReplaySpec

\* The replays of V2 and V3, whose loops are their own code, keep the promises of
\* the live account for all bars, costs and configurations: their round trips stay
\* a cool-down apart and inside the budget of entries of a day.
THEOREM ReplaysObeyLedger == ReplaySpec => []ReplayObeysLedger
<1>1. LedgerKept => ReplayObeysLedger
  <2> SUFFICES ASSUME LedgerKept PROVE ReplayObeysLedger
    OBVIOUS
  <2>1. now \in Times /\ 0 \in Times
    BY ReplayAssumption DEF LedgerKept, Times
  <2>2. Sound(paper, now)
    <3>1. CASE pc = "idle" \/ run.protocol = "V1"
      <4>1. paper = EmptyLedger
        BY <3>1 DEF paper, EmptyLedger, Days, Day, Times
      <4> QED BY <2>1, <4>1, EmptyIsSound
    <3>2. CASE pc # "idle" /\ run.protocol # "V1"
      <4>1. paper = book.ledger
        BY <3>2 DEF paper
      <4>2. CASE pc \in Early
        BY <2>1, <4>1, <4>2, EmptyIsSound DEF LedgerKept
      <4>3. CASE pc \in Late
        BY <3>2, <4>1, <4>3 DEF LedgerKept
      <4> QED BY <3>2, <4>2, <4>3 DEF LedgerKept
    <3> QED BY <3>1, <3>2
  <2> QED BY <2>2 DEF Sound, ReplayObeysLedger, RoundTripsApart, EntryBudgetKept
<1> QED BY <1>1, ReplaysKeepLedger, PTL

-----------------------------------------------------------------------------
\* A symbol that is named once, and a sequence of pairs that names each once.
NamedOnce(S) == \A x, y \in S : x.symbol = y.symbol => x = y
Listed(s) == s \in Seq(Range(s)) /\ NamedOnce(Range(s))

\* A sequence of members of S, and the set of what it holds.
LEMMA RangeInside ==
  ASSUME NEW S, NEW s \in Seq(S)
  PROVE  Range(s) \subseteq S /\ s \in Seq(Range(s))
<1>1. \A i \in DOMAIN s : s[i] \in S /\ s[i] \in Range(s)
  BY DEF Range
<1>2. Range(s) \subseteq S
  BY <1>1 DEF Range
<1>3. PICK T : T = Range(s)
  OBVIOUS
<1>4. DOMAIN s = 1 .. Len(s) /\ Len(s) \in Nat /\ s = [i \in 1 .. Len(s) |-> s[i]]
  OBVIOUS
<1>5. s \in Seq(T)
  BY <1>1, <1>3, <1>4
<1> QED BY <1>2, <1>3, <1>5

\* A sequence of members of a set without two of one symbol.
LEMMA ListedInside ==
  ASSUME NEW S, NamedOnce(S), NEW s \in Seq(S)
  PROVE  Listed(s) /\ Range(s) \subseteq S
BY RangeInside DEF Listed, NamedOnce

\* A sequence of members of a smaller set.
LEMMA Widened ==
  ASSUME NEW S, NEW T, S \subseteq T, NEW s \in Seq(S)
  PROVE  s \in Seq(T)
OBVIOUS

\* The first members of a sequence, as many as a limit allows.
LEMMA FirstMembers ==
  ASSUME NEW S, NEW s \in Seq(S), NEW n \in Nat
  PROVE  SubSeq(s, 1, Min({n, Len(s)})) \in Seq(S)
<1>1. Min({n, Len(s)}) \in 0 .. Len(s)
  <2>1. Len(s) \in Nat
    OBVIOUS
  <2>2. \E x \in {n, Len(s)} : \A y \in {n, Len(s)} : x <= y
    <3>1. CASE n <= Len(s)
      BY <2>1, <3>1
    <3>2. CASE Len(s) <= n
      BY <2>1, <3>2
    <3> QED BY <2>1, <3>1, <3>2
  <2>3. Min({n, Len(s)}) \in {n, Len(s)} /\ \A y \in {n, Len(s)} : Min({n, Len(s)}) <= y
    BY <2>2 DEF Min
  <2> QED BY <2>1, <2>3
<1>2. PICK m \in 0 .. Len(s) : m = Min({n, Len(s)})
  BY <1>1
<1>3. SubSeq(s, 1, m) \in Seq(S)
  BY SubSeqProperties
<1> QED BY <1>2, <1>3

\* A listing has the members of its sequence.
LEMMA ListingIs ==
  ASSUME NEW S, NEW s \in Seq(S)
  PROVE  Listing(s) \in Seq(S)
<1>1. <<>> \in Seq(S)
  OBVIOUS
<1> QED BY <1>1, ConcatProperties DEF Listing

\* The pairs that a scan looks at are pairs that the exchange shows.
LEMMA ShortlistedIs ==
  ASSUME NEW v \in Views
  PROVE  Shortlisted(v) \in Seq(Range(v.pairs))
<1> DEFINE shown == Range(v.pairs)
           tradable == {p \in shown : p.trading /\ p.quote \in Quotes /\ p.volume >= Limits.volume}
           before == [a, b \in shown |-> a.volume > b.volume]
           liquid == Sorted(Only(v.pairs, tradable), before)
           first == Only(liquid, {p \in shown : p.base \in Preferred})
           others == Only(liquid, {p \in shown : p.base \notin Preferred})
           room == Max({Limits.pairs - Len(first), 0})
<1>1. v.pairs \in Seq(shown)
  BY ReplayAssumption DEF IsView
<1>2. tradable \subseteq shown
  OBVIOUS
<1> HIDE DEF tradable, before
<1>3. liquid \in Seq(shown)
  <2>1. Only(v.pairs, tradable) \in Seq(tradable)
    BY <1>1, OnlyType
  <2>2. PICK s : s = Only(v.pairs, tradable)
    OBVIOUS
  <2>3. s \in Seq(shown)
    BY <1>2, <2>1, <2>2, Widened
  <2>4. liquid \in Seq({s[j] : j \in DOMAIN s})
    BY <2>2, <2>3, SortedType
  <2>5. {s[j] : j \in DOMAIN s} \subseteq shown
    BY <2>3
  <2> HIDE DEF liquid, shown
  <2> QED BY <2>4, <2>5, Widened
<1> HIDE DEF liquid
<1>4. first \in Seq(shown) /\ others \in Seq(shown)
  <2>1. first \in Seq({p \in shown : p.base \in Preferred})
    BY <1>3, OnlyType
  <2>2. others \in Seq({p \in shown : p.base \notin Preferred})
    BY <1>3, OnlyType
  <2> HIDE DEF first, others, shown
  <2> QED BY <2>1, <2>2, Widened
<1>5. Shortlisted(v) = first \o SubSeq(others, 1, Min({room, Len(others)}))
  BY DEF Shortlisted, liquid, tradable, before
<1> HIDE DEF first, others
<1>6. room \in Nat
  <2>1. PICK a : a = Limits.pairs - Len(first)
    OBVIOUS
  <2>2. a \in Int
    BY <1>4, <2>1, SpotAssumption
  <2>3. \E x \in {a, 0} : \A y \in {a, 0} : x >= y
    BY <2>2
  <2>4. Max({a, 0}) \in {a, 0} /\ Max({a, 0}) >= 0
    BY <2>3 DEF Max
  <2> QED BY <2>1, <2>2, <2>4
<1> HIDE DEF room, shown
<1>7. SubSeq(others, 1, Min({room, Len(others)})) \in Seq(shown)
  BY <1>4, <1>6, FirstMembers
<1>8. Shortlisted(v) \in Seq(shown)
  BY <1>4, <1>5, <1>7, ConcatProperties
<1> QED BY <1>8 DEF shown

\* A scan makes its candidates of pairs that the exchange shows.
LEMMA ScanIs ==
  ASSUME NEW v \in Views
  PROVE  UniverseScan(v) \in Seq({Candidate(v, p) : p \in Range(v.pairs)})
<1> DEFINE shown == Range(v.pairs)
           good == {p \in shown :
                      /\ Ask(p) >= Bid(p)
                      /\ Min({Depth(p.bids), Depth(p.asks)}) >= Limits.depth
                      /\ BookSlippage(p, Limits.notional).fills}
           fillable == Only(Shortlisted(v), good)
           each == [i \in DOMAIN fillable |-> Candidate(v, fillable[i])]
           candidates == Listing(each)
           C == {Candidate(v, p) : p \in shown}
           Ranked(yes) == Only(candidates, {c \in Range(candidates) : c.allowed = yes})
<1>1. good \subseteq shown
  OBVIOUS
<1>2. UniverseScan(v) = Ranked(TRUE) \o Ranked(FALSE)
  BY DEF UniverseScan
<1>3. fillable \in Seq(shown)
  <2> HIDE DEF good
  <2>1. fillable \in Seq(good)
    BY ShortlistedIs, OnlyType
  <2> HIDE DEF fillable, shown
  <2> QED BY <1>1, <2>1, Widened
<1> HIDE DEF good, fillable
<1>4. each \in Seq(C)
  <2>1. \A i \in DOMAIN fillable : Candidate(v, fillable[i]) \in C
    BY <1>3
  <2>2. DOMAIN fillable = 1 .. Len(fillable) /\ Len(fillable) \in Nat
    BY <1>3
  <2> HIDE DEF C
  <2> QED BY <2>1, <2>2
<1> HIDE DEF each, C
<1>5. Ranked(TRUE) \in Seq(C) /\ Ranked(FALSE) \in Seq(C)
  <2>0. candidates \in Seq(C)
    BY <1>4, ListingIs
  <2> HIDE DEF candidates
  <2>1. Range(candidates) \subseteq C
    BY <2>0, RangeInside
  <2>2. ASSUME NEW yes PROVE Ranked(yes) \in Seq(C)
    <3>1. PICK S : S = {c \in Range(candidates) : c.allowed = yes}
      OBVIOUS
    <3>2. Only(candidates, S) \in Seq(S)
      BY <2>0, OnlyType
    <3>3. S \subseteq C
      BY <2>1, <3>1
    <3>4. Only(candidates, S) \in Seq(C)
      BY <3>2, <3>3, Widened
    <3> QED BY <3>1, <3>4
  <2> QED BY <2>2
<1> HIDE DEF Ranked
<1>6. UniverseScan(v) \in Seq(C)
  BY <1>2, <1>5, ConcatProperties
<1> QED BY <1>6 DEF C

\* It keeps each symbol once.
LEMMA ScanIsListed ==
  ASSUME NEW v \in Views
  PROVE  Listed(UniverseScan(v))
<1> DEFINE C == {Candidate(v, p) : p \in Range(v.pairs)}
<1>1. NamedOnce(C)
  <2>1. \A p : Candidate(v, p).symbol = p.symbol
    BY DEF Candidate
  <2>2. \A p, q \in Range(v.pairs) : p.symbol = q.symbol => p = q
    BY ReplayAssumption DEF IsView
  <2> QED BY <2>1, <2>2 DEF NamedOnce
<1>2. UniverseScan(v) \in Seq(C)
  BY ScanIs
<1> HIDE DEF C
<1> QED BY <1>1, <1>2, ListedInside

\* V1 takes candidates of the scan.
LEMMA QualifiedIs ==
  ASSUME NEW c, Listed(c)
  PROVE  Listed(Qualified(c))
<1>1. PICK S \in SUBSET Range(c) : Qualified(c) = Only(c, S)
  BY DEF Qualified
<1>2. Only(c, S) \in Seq(S)
  BY OnlyType DEF Listed
<1>3. NamedOnce(S)
  BY DEF Listed, NamedOnce
<1> QED BY <1>1, <1>2, <1>3, ListedInside

\* The report of the market profiles candidates that the exchange still shows.
LEMMA ReportIs ==
  ASSUME NEW v, NEW c, Listed(c)
  PROVE  MarketReport(v, c) \in
           Seq({Profile(v, x) : x \in {x \in Range(c) : PairOf(v, x.symbol) # None}})
<1> DEFINE shown == {x \in Range(c) : PairOf(v, x.symbol) # None}
           known == Only(c, shown)
           each == [i \in DOMAIN known |-> Profile(v, known[i])]
           profiles == Listing(each)
           P == {Profile(v, x) : x \in shown}
<1>1. known \in Seq(shown)
  <2> HIDE DEF shown
  <2> QED BY OnlyType DEF Listed
<1>3. \E before : MarketReport(v, c) = Sorted(profiles, before)
  <2> DEFINE key(p) == <<Position(CategoryOrder, p.category), -p.ratio, -p.volume,
                         Position(Alphabet, p.symbol)>>
             Smaller(a, b) == \E i \in 1 .. 4 : a[i] < b[i] /\ \A j \in 1 .. i - 1 : a[j] = b[j]
             before == [a, b \in Range(profiles) |-> Smaller(key(a), key(b))]
  <2>1. MarketReport(v, c) = Sorted(profiles, before)
    BY DEF MarketReport
  <2> HIDE DEF before, profiles
  <2> QED BY <2>1
<1> HIDE DEF shown, known
<1>4. each \in Seq(P)
  <2>1. \A i \in DOMAIN known : Profile(v, known[i]) \in P
    BY <1>1
  <2>2. DOMAIN known = 1 .. Len(known) /\ Len(known) \in Nat
    BY <1>1
  <2> HIDE DEF P
  <2> QED BY <2>1, <2>2
<1> HIDE DEF each, P
<1>5. profiles \in Seq(P) /\ {profiles[j] : j \in DOMAIN profiles} \subseteq P
  <2>1. profiles \in Seq(P)
    BY <1>4, ListingIs
  <2> HIDE DEF profiles
  <2> QED BY <2>1
<1> HIDE DEF profiles
<1>6. ASSUME NEW before PROVE Sorted(profiles, before) \in Seq(P)
  <2>1. Sorted(profiles, before) \in Seq({profiles[j] : j \in DOMAIN profiles})
    BY <1>5, SortedType
  <2> QED BY <1>5, <2>1, Widened
<1>7. MarketReport(v, c) \in Seq(P)
  BY <1>3, <1>6
<1> QED BY <1>7 DEF P, shown

\* It profiles each one once.
LEMMA MarketReportIs ==
  ASSUME NEW v, NEW c, Listed(c)
  PROVE  Listed(MarketReport(v, c))
<1> DEFINE shown == {x \in Range(c) : PairOf(v, x.symbol) # None}
           P == {Profile(v, x) : x \in shown}
<1>1. NamedOnce(P)
  <2>1. \A x : Profile(v, x).symbol = x.symbol
    BY DEF Profile
  <2>2. \A x, y \in shown : x.symbol = y.symbol => x = y
    BY DEF Listed, NamedOnce
  <2> QED BY <2>1, <2>2 DEF NamedOnce
<1>2. MarketReport(v, c) \in Seq(P)
  BY ReportIs
<1> HIDE DEF P
<1> QED BY <1>1, <1>2, ListedInside

\* What V2 and V3 take of a report are profiles of it.
LEMMA AttractiveIs ==
  ASSUME NEW r, Listed(r)
  PROVE  Attractive(r) \in Seq(Range(r))
<1>1. PICK S \in SUBSET Range(r) : Attractive(r) = Only(r, S)
  BY DEF Attractive
<1>2. Only(r, S) \in Seq(S)
  BY OnlyType DEF Listed
<1> QED BY <1>1, <1>2, Widened

\* So is what V2 freezes of it.
LEMMA SelectedIs ==
  ASSUME NEW r, Listed(r)
  PROVE  Listed(Selected(r)) /\ Range(Selected(r)) \subseteq Range(r)
<1>1. Attractive(r) \in Seq(Range(r)) /\ Limits.top \in Nat
  BY AttractiveIs, SpotAssumption
<1>2. Selected(r) \in Seq(Range(r))
  BY <1>1, FirstMembers DEF Selected
<1> QED BY <1>2, ListedInside DEF Listed

\* And what V3 freezes.
LEMMA DynamicIs ==
  ASSUME NEW r, Listed(r)
  PROVE  Listed(DynamicUniverse(r)) /\ Range(DynamicUniverse(r)) \subseteq Range(r)
<1> DEFINE attractive == Attractive(r)
           Add(chosen, symbol) ==
             IF \E i \in DOMAIN chosen : chosen[i].symbol = symbol THEN chosen
             ELSE chosen \o Only(r, {p \in Range(r) : p.symbol = symbol})
<1>1. \E S \in SUBSET Range(attractive) :
        LET unique == Only(attractive, S)
        IN DynamicUniverse(r) = Add(Add(SubSeq(unique, 1, Min({Limits.universe, Len(unique)})), Btc), Eth)
  BY DEF DynamicUniverse
<1>2. attractive \in Seq(Range(r)) /\ Range(attractive) \subseteq Range(r)
  BY AttractiveIs, RangeInside
<1>3. PICK S : /\ S \subseteq Range(r)
               /\ DynamicUniverse(r) =
                    Add(Add(SubSeq(Only(attractive, S), 1, Min({Limits.universe, Len(Only(attractive, S))})),
                            Btc), Eth)
  <2> HIDE DEF attractive, Add
  <2> QED BY <1>1, <1>2
<1> HIDE DEF attractive
<1>4. PICK u : u = Only(attractive, S) /\ u \in Seq(Range(r))
  <2>1. Only(attractive, S) \in Seq(S)
    BY <1>2, OnlyType
  <2> QED BY <1>3, <2>1, Widened
<1>5. PICK w : w = SubSeq(u, 1, Min({Limits.universe, Len(u)})) /\ w \in Seq(Range(r))
  <2>1. Limits.universe \in Nat
    BY SpotAssumption
  <2> QED BY <1>4, <2>1, FirstMembers
<1>6. ASSUME NEW chosen \in Seq(Range(r)), NEW symbol
      PROVE  Add(chosen, symbol) \in Seq(Range(r))
  <2>1. PICK T \in SUBSET Range(r) : T = {p \in Range(r) : p.symbol = symbol}
    OBVIOUS
  <2>2. Only(r, T) \in Seq(T)
    BY OnlyType DEF Listed
  <2>3. Only(r, T) \in Seq(Range(r))
    BY <2>1, <2>2, Widened
  <2>4. chosen \o Only(r, T) \in Seq(Range(r))
    BY <2>3, ConcatProperties
  <2> QED BY <2>1, <2>4
<1>7. DynamicUniverse(r) = Add(Add(w, Btc), Eth)
  <2> HIDE DEF Add
  <2> QED BY <1>3, <1>4, <1>5
<1> HIDE DEF Add
<1>8. DynamicUniverse(r) \in Seq(Range(r))
  BY <1>5, <1>6, <1>7
<1> QED BY <1>8, ListedInside DEF Listed

\* V3 leaves out pairs with a short history and takes no other.
LEMMA EligibleIs ==
  ASSUME NEW w, NEW s, Listed(s), NEW history
  PROVE  Listed(Eligible(w, s, history)) /\ Range(Eligible(w, s, history)) \subseteq Range(s)
<1>1. PICK S \in SUBSET Range(s) : Eligible(w, s, history) = Only(s, S)
  BY DEF Eligible
<1>2. Only(s, S) \in Seq(S)
  BY OnlyType DEF Listed
<1>3. Eligible(w, s, history) \in Seq(Range(s))
  BY <1>1, <1>2, Widened
<1> QED BY <1>3, ListedInside DEF Listed

-----------------------------------------------------------------------------
\* The invariant of the freezes.  A file of a protocol holds what every report of
\* it was made with; there is none before the first report and, as an interrupted
\* writing ends the protocol, none after a file was torn.  The report of the
\* market and the freeze of V2 are written apart: the second one is what the
\* first one selects.
Protocols == {"V1", "V2", "V3"}

Seen(p) == UNION {Range(r.universe) : r \in {q \in reports : q.protocol = p}}

FileKept(f, p) ==
  /\ f.state \in {"absent", "torn", "whole"}
  /\ f.state = "absent" => Seen(p) = {}
  /\ f.state = "whole" => Listed(f.pairs) /\ Seen(p) \subseteq Range(f.pairs)
  /\ NamedOnce(Seen(p))

DiskKept ==
  /\ disk = [check |-> disk.check, v1 |-> disk.v1, market |-> disk.market, v2 |-> disk.v2,
             v3 |-> disk.v3, history |-> disk.history]
  /\ FileKept(disk.v1, "V1") /\ FileKept(disk.v2, "V2") /\ FileKept(disk.v3, "V3")
  /\ disk.check # None => Listed(disk.check.candidates)
  /\ disk.market.state \in {"absent", "whole"}
  /\ disk.market.state = "whole" => Listed(disk.market.pairs)
  /\ disk.v2.state # "absent" => disk.market.state = "whole"
  /\ disk.v2.state = "whole" => disk.v2.pairs = Selected(disk.market.pairs)
  /\ \A r \in reports : r.protocol \in Protocols

CommandKept ==
  /\ pc \notin {"idle", "market"} => Listed(run.pairs)
  /\ pc = "market" => /\ run.protocol = "V2" /\ disk.v2.state = "absent" /\ disk.check # None
  /\ pc = "recover" => run.protocol = "V1" /\ disk.v1.state = "absent"
  /\ pc \in {"recover", "freeze", "freezing"} => Seen(run.protocol) \subseteq Range(run.pairs)
  /\ pc \in {"freeze", "freezing"} /\ run.protocol = "V2" =>
       disk.market.state = "whole" /\ run.pairs = Selected(disk.market.pairs)
  /\ pc \in {"collect", "prepare"} \union Late =>
       LET f == FreezeOf(run.protocol)
       IN f.state = "whole" /\ Range(run.pairs) \subseteq Range(f.pairs)

FrozenKept == live \in Views /\ DiskKept /\ CommandKept

\* What does not touch a file or a report keeps the files.
LEMMA DiskStays ==
  ASSUME DiskKept, UNCHANGED <<disk, reports>>
  PROVE  DiskKept'
BY DEF DiskKept, FileKept, Seen

\* The freeze of a protocol is one of the three files.
LEMMA FreezeIsKept ==
  ASSUME DiskKept, NEW p \in Protocols
  PROVE  FileKept(FreezeOf(p), p)
BY DEF DiskKept, FreezeOf, Protocols

\* A command takes the frozen pairs, or freezes those that it chooses.
LEMMA StartKeeps ==
  ASSUME FrozenKept, LedgerKept, StartV1 \/ StartV2 \/ StartV3
  PROVE  FrozenKept'
<1> USE DEF FrozenKept
<1>1. ASSUME NEW point, NEW r, Launch(point, r)
      PROVE  /\ pc' = point /\ run' = r /\ DiskKept' /\ live' \in Views
             /\ UNCHANGED <<disk, reports>>
  BY <1>1, DiskStays DEF Launch
<1>2. \A protocol, pairs, collect, fee :
        LET r == Started(protocol, pairs, collect, fee) IN r.protocol = protocol /\ r.pairs = pairs
  BY DEF Started
<1>3. CASE StartV1
  <2>1. PICK collect \in BOOLEAN : \E fee :
          LET selected == Frozen(disk.v1, Qualified(UniverseScan(live)))
          IN /\ disk.v1.state # "torn"
             /\ Launch(CASE collect -> "freeze"
                         [] ~collect /\ disk.v1.state = "absent" -> "recover"
                         [] OTHER -> "prepare", Started("V1", selected, collect, fee))
    BY <1>3 DEF StartV1
  <2> DEFINE selected == Frozen(disk.v1, Qualified(UniverseScan(live)))
  <2>2. disk.v1.state \in {"absent", "whole"} /\ FileKept(disk.v1, "V1")
    BY <2>1 DEF DiskKept, FileKept
  <2>3. Listed(selected) /\ Seen("V1") \subseteq Range(selected)
    <3>1. CASE disk.v1.state = "absent"
      <4>1. selected = Qualified(UniverseScan(live)) /\ Seen("V1") = {}
        BY <2>2, <3>1 DEF Frozen, FileKept
      <4> QED BY <4>1, ScanIsListed, QualifiedIs
    <3>2. CASE disk.v1.state = "whole"
      BY <2>2, <3>2 DEF Frozen, FileKept
    <3> QED BY <2>2, <3>1, <3>2
  <2>4. disk.v1.state = "whole" => selected = disk.v1.pairs
    BY DEF Frozen
  <2> HIDE DEF selected
  <2>5. /\ run'.protocol = "V1" /\ run'.pairs = selected /\ DiskKept' /\ live' \in Views
        /\ UNCHANGED <<disk, reports>>
        /\ pc' \in {"freeze", "recover", "prepare"}
        /\ pc' = "recover" => disk.v1.state = "absent"
        /\ pc' = "prepare" => disk.v1.state = "whole"
    BY <1>1, <1>2, <2>1, <2>2 DEF selected
  <2> QED BY <2>3, <2>4, <2>5 DEF CommandKept, Seen, FreezeOf, Late
<1>4. CASE StartV2
  <2>1. PICK collect \in BOOLEAN :
          \/ /\ disk.market.state = "whole" /\ disk.v2.state = "whole"
             /\ Launch(IF collect THEN "collect" ELSE "prepare",
                       Started("V2", FrozenSelection, collect, 0))
          \/ /\ disk.market.state = "absent" \/ disk.v2.state = "absent"
             /\ disk.check # None
             /\ Launch("market", Started("V2", <<>>, collect, 0))
    BY <1>4 DEF StartV2
  <2>2. CASE /\ disk.market.state = "whole" /\ disk.v2.state = "whole"
             /\ Launch(IF collect THEN "collect" ELSE "prepare",
                       Started("V2", FrozenSelection, collect, 0))
    <3>1. /\ run'.protocol = "V2" /\ run'.pairs = FrozenSelection /\ DiskKept' /\ live' \in Views
          /\ UNCHANGED <<disk, reports>> /\ pc' \in {"collect", "prepare"}
      BY <1>1, <1>2, <2>2
    <3>2. Listed(Selected(disk.market.pairs)) /\ disk.v2.pairs = Selected(disk.market.pairs)
      BY <2>2, SelectedIs DEF DiskKept
    <3>3. PICK S \in SUBSET Range(Selected(disk.market.pairs)) :
            FrozenSelection = Only(Selected(disk.market.pairs), S)
      BY DEF FrozenSelection
    <3>4. FrozenSelection \in Seq(S)
      BY <3>2, <3>3, OnlyType DEF Listed
    <3>5. FrozenSelection \in Seq(Range(disk.v2.pairs))
      BY <3>2, <3>3, <3>4, Widened
    <3>6. Listed(FrozenSelection) /\ Range(FrozenSelection) \subseteq Range(disk.v2.pairs)
      BY <3>2, <3>5, ListedInside DEF Listed
    <3> QED BY <2>2, <3>1, <3>6 DEF CommandKept, Seen, FreezeOf, Late
  <2>3. CASE /\ disk.market.state = "absent" \/ disk.v2.state = "absent"
             /\ disk.check # None
             /\ Launch("market", Started("V2", <<>>, collect, 0))
    <3>1. disk.v2.state = "absent"
      BY <2>3 DEF DiskKept
    <3>2. run'.protocol = "V2" /\ DiskKept' /\ live' \in Views /\ pc' = "market"
          /\ UNCHANGED <<disk, reports>>
      BY <1>1, <1>2, <2>3
    <3> QED BY <2>3, <3>1, <3>2 DEF CommandKept, Late
  <2> QED BY <2>1, <2>2, <2>3
<1>5. CASE StartV3
  <2> DEFINE pairs == Frozen(disk.v3, DynamicUniverse(disk.market.pairs))
  <2>1. PICK collect \in BOOLEAN :
          /\ disk.market.state = "whole" /\ disk.v3.state # "torn"
          /\ Launch(CASE disk.v3.state = "absent" -> "freeze"
                      [] disk.v3.state # "absent" /\ collect -> "collect"
                      [] OTHER -> "prepare", Started("V3", pairs, collect, 0))
    BY <1>5 DEF StartV3
  <2>2. disk.v3.state \in {"absent", "whole"} /\ FileKept(disk.v3, "V3")
    BY <2>1 DEF DiskKept, FileKept
  <2>3. Listed(pairs) /\ Seen("V3") \subseteq Range(pairs)
    <3>1. CASE disk.v3.state = "absent"
      <4>1. pairs = DynamicUniverse(disk.market.pairs) /\ Seen("V3") = {}
        BY <2>2, <3>1 DEF Frozen, FileKept
      <4>2. Listed(disk.market.pairs)
        BY <2>1 DEF DiskKept
      <4> QED BY <4>1, <4>2, DynamicIs
    <3>2. CASE disk.v3.state = "whole"
      BY <2>2, <3>2 DEF Frozen, FileKept
    <3> QED BY <2>2, <3>1, <3>2
  <2>4. disk.v3.state = "whole" => pairs = disk.v3.pairs
    BY DEF Frozen
  <2> HIDE DEF pairs
  <2>5. /\ run'.protocol = "V3" /\ run'.pairs = pairs /\ DiskKept' /\ live' \in Views
        /\ UNCHANGED <<disk, reports>>
        /\ pc' \in {"freeze", "collect", "prepare"}
        /\ pc' # "freeze" => disk.v3.state = "whole"
    BY <1>1, <1>2, <2>1, <2>2
  <2> QED BY <2>3, <2>4, <2>5 DEF CommandKept, Seen, FreezeOf, Late
<1> QED BY <1>3, <1>4, <1>5

\* A look at the exchange, a step of a replay, a death: no file and no report
\* changes.
LEMMA QuietKeeps ==
  ASSUME FrozenKept, LedgerKept,
         Move \/ Recover \/ Prepare \/ BeginReplay \/ SpotBar \/ RelativeBar \/ FinishReplay \/ Kill
           \/ UNCHANGED replayVars
  PROVE  FrozenKept'
<1> USE DEF FrozenKept
<1>1. CASE Move
  <2>1. UNCHANGED <<disk, reports, pc, run>> /\ live' \in Views
    BY <1>1 DEF Move
  <2> QED BY <2>1, DiskStays DEF CommandKept, Seen, FreezeOf
<1>2. CASE Recover
  <2>1. /\ pc = "recover" /\ pc' = "freeze" /\ UNCHANGED <<disk, reports, live>>
        /\ \E S \in SUBSET Range(run.pairs) : run' = [run EXCEPT !.pairs = Only(@, S)]
    BY <1>2 DEF Recover
  <2>2. PICK S \in SUBSET Range(run.pairs) : run' = [run EXCEPT !.pairs = Only(@, S)]
    BY <2>1
  <2>3. RunIs(run) /\ Listed(run.pairs) /\ run.protocol = "V1" /\ disk.v1.state = "absent"
    BY <2>1 DEF LedgerKept, CommandKept
  <2>4. run'.pairs = Only(run.pairs, S) /\ run'.protocol = "V1"
    BY <2>2, <2>3 DEF RunIs
  <2>5. Only(run.pairs, S) \in Seq(S)
    BY <2>3, OnlyType DEF Listed
  <2>6. Only(run.pairs, S) \in Seq(Range(run.pairs))
    BY <2>5, Widened
  <2>7. Listed(run'.pairs)
    BY <2>3, <2>4, <2>6, ListedInside DEF Listed
  <2>8. Seen("V1") = {}
    BY <2>3 DEF DiskKept, FileKept
  <2> QED BY <2>1, <2>4, <2>7, <2>8, DiskStays DEF CommandKept, Seen, Late
<1>3. CASE Prepare
  <2>1. /\ pc = "prepare" /\ UNCHANGED <<disk, reports, live>>
        /\ \/ pc' = "idle"
           \/ /\ pc' = "begin"
              /\ \E rules : run' = [run EXCEPT !.pairs =
                   IF run.protocol = "V3" THEN Eligible(market, run.pairs, disk.history) ELSE run.pairs,
                   !.rules = rules]
    BY <1>3 DEF Prepare
  <2>2. CASE pc' = "idle"
    BY <2>1, <2>2, DiskStays DEF CommandKept, Late
  <2>3. CASE pc' = "begin"
    <3> DEFINE pairs == IF run.protocol = "V3" THEN Eligible(market, run.pairs, disk.history)
                        ELSE run.pairs
    <3>1. PICK rules : run' = [run EXCEPT !.pairs = pairs, !.rules = rules]
      BY <2>1, <2>3
    <3>2. RunIs(run) /\ Listed(run.pairs)
      BY <2>1 DEF LedgerKept, CommandKept, Early
    <3>3. Listed(pairs) /\ Range(pairs) \subseteq Range(run.pairs)
      BY <3>2, EligibleIs
    <3> HIDE DEF pairs
    <3>4. run'.pairs = pairs /\ run'.protocol = run.protocol
      BY <3>1, <3>2 DEF RunIs
    <3>5. FreezeOf(run.protocol).state = "whole"
          /\ Range(run.pairs) \subseteq Range(FreezeOf(run.protocol).pairs)
      BY <2>1 DEF CommandKept
    <3>6. FreezeOf(run.protocol)' = FreezeOf(run.protocol)
      BY <2>1, <3>4 DEF FreezeOf
    <3> QED BY <2>1, <2>3, <3>3, <3>4, <3>5, <3>6, DiskStays DEF CommandKept, Late
  <2> QED BY <2>1, <2>2, <2>3
<1>4. CASE BeginReplay \/ SpotBar \/ RelativeBar \/ FinishReplay
  <2>1. /\ pc \in Late /\ pc' \in Late /\ UNCHANGED <<disk, reports, live>>
        /\ \/ run' = run
           \/ \E left, kept : run' = [run EXCEPT !.left = left, !.kept = kept]
    BY <1>4 DEF BeginReplay, SpotBar, RelativeBar, FinishReplay, Late
  <2>2. RunIs(run)
    BY <2>1 DEF LedgerKept, Late
  <2>3. run'.pairs = run.pairs /\ run'.protocol = run.protocol
    BY <2>1, <2>2 DEF RunIs
  <2> QED BY <2>1, <2>3, DiskStays DEF CommandKept, FreezeOf, Late
<1>5. CASE Kill
  <2>1. pc' = "idle" /\ UNCHANGED <<disk, reports, live>>
    BY <1>5 DEF Kill
  <2> QED BY <2>1, DiskStays DEF CommandKept, Late
<1>6. CASE UNCHANGED replayVars
  <2>1. UNCHANGED <<disk, reports, live, pc, run>>
    BY <1>6 DEF replayVars
  <2> QED BY <2>1, DiskStays DEF CommandKept, Seen, FreezeOf
<1> QED BY <1>1, <1>2, <1>3, <1>4, <1>5, <1>6

\* The scan of the exchange and the history: files that no freeze depends on.
LEMMA FilesKeep ==
  ASSUME FrozenKept, LedgerKept, BinanceCheck \/ Collect
  PROVE  FrozenKept'
<1> USE DEF FrozenKept
<1>1. CASE BinanceCheck
  <2>1. pc = "idle" /\ pc' = "idle" /\ UNCHANGED <<live, reports>>
    BY <1>1 DEF BinanceCheck
  <2>2. PICK authenticated :
          disk' = [disk EXCEPT !.check = [authenticated |-> authenticated,
                                          candidates |-> UniverseScan(live)]]
    BY <1>1 DEF BinanceCheck
  <2>3. /\ disk' = [check |-> disk'.check, v1 |-> disk.v1, market |-> disk.market, v2 |-> disk.v2,
                    v3 |-> disk.v3, history |-> disk.history]
        /\ disk'.check.candidates = UniverseScan(live)
    BY <2>2 DEF DiskKept
  <2>4. DiskKept'
    BY <2>1, <2>3, ScanIsListed DEF DiskKept, FileKept, Seen
  <2> QED BY <2>1, <2>4 DEF CommandKept, Late
<1>2. CASE Collect
  <2>1. pc = "collect" /\ pc' = "prepare" /\ UNCHANGED <<live, reports, run>>
    BY <1>2 DEF Collect
  <2>2. PICK history : disk' = [disk EXCEPT !.history = history]
    BY <1>2 DEF Collect
  <2>3. disk' = [check |-> disk.check, v1 |-> disk.v1, market |-> disk.market, v2 |-> disk.v2,
                 v3 |-> disk.v3, history |-> history]
    BY <2>2 DEF DiskKept
  <2>4. DiskKept'
    BY <2>1, <2>3 DEF DiskKept, FileKept, Seen
  <2> QED BY <2>1, <2>3, <2>4 DEF CommandKept, FreezeOf, Late
<1> QED BY <1>1, <1>2

\* The report of the market is written while V2 has no freeze.
LEMMA MarketKeeps ==
  ASSUME FrozenKept, LedgerKept, WriteMarket
  PROVE  FrozenKept'
<1> USE DEF FrozenKept
<1> DEFINE report == MarketReport(live, disk.check.candidates)
<1>1. /\ pc = "market" /\ disk' = [disk EXCEPT !.market = Whole(report)]
      /\ \/ pc' = "idle"
         \/ pc' = "freeze" /\ run' = [run EXCEPT !.pairs = Selected(report)]
      /\ UNCHANGED <<live, reports>>
  BY DEF WriteMarket
<1>2. /\ run.protocol = "V2" /\ disk.v2.state = "absent" /\ disk.check # None
      /\ Listed(disk.check.candidates) /\ RunIs(run)
  BY <1>1 DEF CommandKept, DiskKept, LedgerKept, Early
<1>3. Listed(report) /\ Listed(Selected(report))
  BY <1>2, MarketReportIs, SelectedIs
<1> HIDE DEF report
<1>4. /\ disk' = [check |-> disk.check, v1 |-> disk.v1, market |-> Whole(report), v2 |-> disk.v2,
                  v3 |-> disk.v3, history |-> disk.history]
      /\ Whole(report).state = "whole" /\ Whole(report).pairs = report
  BY <1>1 DEF DiskKept, Whole
<1>5. DiskKept'
  BY <1>1, <1>2, <1>3, <1>4 DEF DiskKept, FileKept, Seen
<1>6. CASE pc' = "idle"
  BY <1>1, <1>5, <1>6 DEF CommandKept, Late
<1>7. CASE pc' = "freeze" /\ run' = [run EXCEPT !.pairs = Selected(report)]
  <2>1. run'.pairs = Selected(report) /\ run'.protocol = "V2"
    BY <1>2, <1>7 DEF RunIs
  <2>2. Seen("V2") = {}
    BY <1>2 DEF DiskKept, FileKept
  <2> QED BY <1>1, <1>3, <1>4, <1>5, <1>7, <2>1, <2>2 DEF CommandKept, Late, Seen
<1> QED BY <1>1, <1>5, <1>6, <1>7

\* The two steps of a freeze.
LEMMA FreezeKeeps ==
  ASSUME FrozenKept, LedgerKept, BeginFreeze \/ EndFreeze
  PROVE  FrozenKept'
<1> USE DEF FrozenKept
<1>1. PICK f :
        /\ disk' = WithFreeze(run.protocol, f) /\ pc \in {"freeze", "freezing"}
        /\ UNCHANGED <<live, reports, run>>
        /\ \/ pc' = "freezing" /\ f = Torn
           \/ pc' \in {"collect", "prepare"} /\ f = Whole(run.pairs)
  BY DEF BeginFreeze, EndFreeze
<1>2. /\ run.protocol \in Protocols /\ Listed(run.pairs)
      /\ Seen(run.protocol) \subseteq Range(run.pairs)
  BY <1>1 DEF CommandKept, LedgerKept, RunIs, Early, Protocols
<1>3. /\ f.state # "absent" /\ f.state \in {"torn", "whole"}
      /\ f.state = "whole" => f.pairs = run.pairs
  BY <1>1 DEF Torn, Whole
<1>4. FileKept(f, run.protocol)
  <2>1. NamedOnce(Seen(run.protocol))
    BY <1>2 DEF Listed, NamedOnce
  <2> QED BY <1>2, <1>3, <2>1 DEF FileKept
<1>5. /\ disk'.check = disk.check /\ disk'.market = disk.market
      /\ disk' = [check |-> disk'.check, v1 |-> disk'.v1, market |-> disk'.market, v2 |-> disk'.v2,
                  v3 |-> disk'.v3, history |-> disk'.history]
      /\ disk'.v1 = IF run.protocol = "V1" THEN f ELSE disk.v1
      /\ disk'.v2 = IF run.protocol = "V2" THEN f ELSE disk.v2
      /\ disk'.v3 = IF run.protocol = "V3" THEN f ELSE disk.v3
  <2>1. CASE run.protocol = "V1"
    BY <1>1, <2>1 DEF WithFreeze, DiskKept
  <2>2. CASE run.protocol = "V2"
    BY <1>1, <2>2 DEF WithFreeze, DiskKept
  <2>3. CASE run.protocol = "V3"
    BY <1>1, <2>3 DEF WithFreeze, DiskKept
  <2> QED BY <1>2, <2>1, <2>2, <2>3 DEF Protocols
<1>6. run.protocol = "V2" => disk.market.state = "whole" /\ run.pairs = Selected(disk.market.pairs)
  BY <1>1 DEF CommandKept
<1>7. \A g, p : FileKept(g, p)' <=> FileKept(g, p)
  BY <1>1 DEF FileKept, Seen
<1>8. DiskKept'
  BY <1>1, <1>3, <1>4, <1>5, <1>6, <1>7 DEF DiskKept
<1>9. FreezeOf(run.protocol)' = f
  BY <1>1, <1>2, <1>5 DEF FreezeOf, Protocols
<1>10. CASE pc' = "freezing"
  BY <1>1, <1>2, <1>5, <1>6, <1>8, <1>10 DEF CommandKept, Late, Seen
<1>11. CASE pc' \in {"collect", "prepare"}
  <2>1. f.state = "whole" /\ f.pairs = run.pairs
    BY <1>1, <1>11 DEF Torn, Whole
  <2> QED BY <1>1, <1>2, <1>8, <1>9, <1>11, <2>1 DEF CommandKept, Late
<1> QED BY <1>1, <1>10, <1>11

\* A report is made with pairs of the freeze.
LEMMA DeliverKeeps ==
  ASSUME FrozenKept, LedgerKept, DeliverV1 \/ DeliverV2 \/ DeliverV3
  PROVE  FrozenKept'
<1> USE DEF FrozenKept
<1>1. PICK verdict, details :
        /\ pc = "deliver" /\ pc' = "idle" /\ UNCHANGED <<disk, live>>
        /\ reports' = reports \union
             {[protocol |-> run.protocol, universe |-> run.pairs, details |-> details, verdict |-> verdict]}
  BY DEF DeliverV1, DeliverV2, DeliverV3, Delivered
<1>2. run.protocol \in Protocols
  BY <1>1 DEF LedgerKept, RunIs, Late, Protocols
<1>3. /\ FreezeOf(run.protocol).state = "whole"
      /\ Range(run.pairs) \subseteq Range(FreezeOf(run.protocol).pairs)
  BY <1>1 DEF CommandKept, Late
<1>4. \A p : Seen(p)' = Seen(p) \union (IF p = run.protocol THEN Range(run.pairs) ELSE {})
  <2>1. PICK x : /\ x.protocol = run.protocol /\ x.universe = run.pairs
                 /\ reports' = reports \union {x}
    BY <1>1
  <2> QED BY <2>1 DEF Seen
<1>5. ASSUME NEW p \in Protocols PROVE FileKept(FreezeOf(p), p)'
  <2>1. FreezeOf(p)' = FreezeOf(p) /\ FileKept(FreezeOf(p), p)
    BY <1>1, FreezeIsKept DEF FreezeOf
  <2>2. CASE p = run.protocol
    BY <1>3, <1>4, <2>1, <2>2 DEF FileKept, Listed, NamedOnce
  <2>3. CASE p # run.protocol
    BY <1>4, <2>1, <2>3 DEF FileKept
  <2> QED BY <2>2, <2>3
<1>6. FileKept(disk.v1, "V1")' /\ FileKept(disk.v2, "V2")' /\ FileKept(disk.v3, "V3")'
  BY <1>5 DEF FreezeOf, Protocols
<1>7. DiskKept'
  BY <1>1, <1>2, <1>6 DEF DiskKept
<1> QED BY <1>1, <1>7 DEF CommandKept, Late

\* Every step keeps the freezes.
LEMMA FrozenKeptStep ==
  ASSUME FrozenKept, LedgerKept, [ReplayNext]_replayVars
  PROVE  FrozenKept'
BY StartKeeps, QuietKeeps, FilesKeep, MarketKeeps, FreezeKeeps, DeliverKeeps DEF ReplayNext

\* There is no file before the first command.
LEMMA FrozenKeptInit == ReplayInit => FrozenKept
BY DEF ReplayInit, FrozenKept, DiskKept, CommandKept, FileKept, Seen, Absent, NamedOnce, Late

\* The inductive invariant of the freezes.
THEOREM ReplaysKeepFreezes == ReplaySpec => []FrozenKept
BY ReplaysKeepLedger, FrozenKeptInit, FrozenKeptStep, PTL DEF ReplaySpec

\* Every report of a protocol was made with the pairs that the protocol froze
\* once and with the costs recorded there (the spread; for V2 and V3 the fees and
\* the slippage), whatever the exchange showed later, whichever files the other
\* commands wrote and wherever a command died.
THEOREM UniversesStayFrozen == ReplaySpec => []UniverseStaysFrozen
<1>1. FrozenKept => UniverseStaysFrozen
  <2> SUFFICES ASSUME FrozenKept, NEW r \in reports
               PROVE  /\ FreezeOf(r.protocol).state = "whole" =>
                           Range(r.universe) \subseteq Range(FreezeOf(r.protocol).pairs)
                      /\ \A q \in reports : q.protocol = r.protocol =>
                           \A x \in Range(r.universe), y \in Range(q.universe) :
                             x.symbol = y.symbol => x = y
    BY DEF UniverseStaysFrozen
  <2>1. FileKept(FreezeOf(r.protocol), r.protocol)
    BY FreezeIsKept DEF FrozenKept, DiskKept
  <2>2. \A q \in reports : q.protocol = r.protocol => Range(q.universe) \subseteq Seen(r.protocol)
    BY DEF Seen
  <2> QED BY <2>1, <2>2 DEF FileKept, NamedOnce
<1> QED BY <1>1, ReplaysKeepFreezes, PTL

-----------------------------------------------------------------------------
\* One of some integers, of which there is a last one, is the largest.
LEMMA LargestOf ==
  ASSUME NEW n \in Nat, NEW f \in [1 .. n + 1 -> Int]
  PROVE  \E k \in 1 .. n + 1 : \A j \in 1 .. n + 1 : f[j] <= f[k]
<1> DEFINE S == {m \in Nat : m <= n => \E k \in 1 .. m + 1 : \A j \in 1 .. m + 1 : f[j] <= f[k]}
<1>1. 0 \in S
  OBVIOUS
<1>2. \A m \in Nat : m \in S => m + 1 \in S
  <2> SUFFICES ASSUME NEW m \in Nat, m \in S, m + 1 <= n
               PROVE  \E k \in 1 .. m + 2 : \A j \in 1 .. m + 2 : f[j] <= f[k]
    BY \A m \in Nat : m + 1 \in Nat /\ (m + 1) + 1 = m + 2
  <2>1. PICK h \in 1 .. m + 1 : \A j \in 1 .. m + 1 : f[j] <= f[h]
    OBVIOUS
  <2>2. PICK e \in Int : /\ e = m + 2 /\ e \in 1 .. e /\ h \in 1 .. e
                         /\ \A j \in 1 .. e : j \in 1 .. n + 1 /\ (j \in 1 .. m + 1 \/ j = e)
    OBVIOUS
  <2>3. \A j \in 1 .. e : f[j] \in Int
    BY <2>2
  <2> HIDE DEF S
  <2>4. CASE f[e] <= f[h]
    <3>1. \A j \in 1 .. e : f[j] <= f[h]
      BY <2>1, <2>2, <2>4
    <3> QED BY <2>2, <3>1
  <2>5. CASE f[h] <= f[e]
    <3>1. \A j \in 1 .. e : f[j] <= f[e]
      <4> SUFFICES ASSUME NEW j \in 1 .. e PROVE f[j] <= f[e]
        OBVIOUS
      <4>1. CASE j = e
        BY <2>2, <2>3, <4>1
      <4>2. CASE j \in 1 .. m + 1
        <5>1. f[j] <= f[h] /\ f[j] \in Int /\ f[h] \in Int /\ f[e] \in Int
          BY <2>1, <2>2, <2>3, <4>2
        <5> QED BY <2>5, <5>1
      <4> QED BY <2>2, <4>1, <4>2
    <3> QED BY <2>2, <3>1
  <2>6. f[e] \in Int /\ f[h] \in Int
    BY <2>2, <2>3
  <2> QED BY <2>4, <2>5, <2>6
<1> HIDE DEF S
<1>3. n \in S
  BY <1>1, <1>2, SetInduction
<1> QED BY <1>3 DEF S

\* And one of them is the smallest.
LEMMA SmallestOf ==
  ASSUME NEW n \in Nat, NEW f \in [1 .. n + 1 -> Int]
  PROVE  \E k \in 1 .. n + 1 : \A j \in 1 .. n + 1 : f[j] >= f[k]
<1> DEFINE g == [i \in 1 .. n + 1 |-> -f[i]]
<1>1. g \in [1 .. n + 1 -> Int]
  OBVIOUS
<1>2. \A i \in 1 .. n + 1 : g[i] = -f[i] /\ f[i] \in Int
  OBVIOUS
<1> HIDE DEF g
<1>3. PICK k \in 1 .. n + 1 : \A j \in 1 .. n + 1 : g[j] <= g[k]
  BY <1>1, LargestOf
<1>4. \A j \in 1 .. n + 1 : f[j] >= f[k]
  BY <1>2, <1>3
<1> QED BY <1>4

\* The highest and the lowest of a sequence are numbers of it.
LEMMA HighestIs ==
  ASSUME NEW s \in Seq(Int), Len(s) >= 1
  PROVE  Highest(s) \in Int /\ Lowest(s) \in Int /\ \A i \in DOMAIN s : Highest(s) >= s[i]
<1>1. PICK n \in Nat : n + 1 = Len(s)
  BY Len(s) \in Nat, Len(s) - 1 \in Nat
<1>2. DOMAIN s = 1 .. n + 1 /\ s \in [1 .. n + 1 -> Int]
  BY <1>1
<1>3. \A x \in Range(s) : x \in Int
  BY <1>2 DEF Range
<1>4. \E x \in Range(s) : \A y \in Range(s) : x >= y
  <2>1. PICK k \in 1 .. n + 1 : \A j \in 1 .. n + 1 : s[j] <= s[k]
    BY <1>2, LargestOf
  <2> QED BY <1>2, <2>1 DEF Range
<1>5. \E x \in Range(s) : \A y \in Range(s) : x <= y
  <2>1. PICK k \in 1 .. n + 1 : \A j \in 1 .. n + 1 : s[j] >= s[k]
    BY <1>2, SmallestOf
  <2> QED BY <1>2, <2>1 DEF Range
<1>6. /\ Max(Range(s)) \in Range(s) /\ \A y \in Range(s) : Max(Range(s)) >= y
      /\ Min(Range(s)) \in Range(s)
  BY <1>4, <1>5 DEF Max, Min
<1>7. \A i \in DOMAIN s : s[i] \in Range(s)
  BY DEF Range
<1> QED BY <1>3, <1>6, <1>7 DEF Highest, Lowest

\* The larger and the smaller of two.
LEMMA OfTwo ==
  ASSUME NEW a \in Int, NEW b \in Int
  PROVE  /\ Max({a, b}) = IF a >= b THEN a ELSE b
         /\ Min({a, b}) = IF a <= b THEN a ELSE b
<1>1. \E x \in {a, b} : \A y \in {a, b} : x >= y
  <2>1. CASE a >= b BY <2>1
  <2>2. CASE b >= a BY <2>2
  <2> QED BY <2>1, <2>2
<1>2. \E x \in {a, b} : \A y \in {a, b} : x <= y
  <2>1. CASE a <= b BY <2>1
  <2>2. CASE b <= a BY <2>2
  <2> QED BY <2>1, <2>2
<1>3. /\ Max({a, b}) \in {a, b} /\ \A y \in {a, b} : Max({a, b}) >= y
      /\ Min({a, b}) \in {a, b} /\ \A y \in {a, b} : Min({a, b}) <= y
  BY <1>1, <1>2 DEF Max, Min
<1>4. PICK h \in {a, b} : h = Max({a, b}) /\ h >= a /\ h >= b
  BY <1>3
<1>5. PICK l \in {a, b} : l = Min({a, b}) /\ l <= a /\ l <= b
  BY <1>3
<1>6. h = IF a >= b THEN a ELSE b
  BY <1>4
<1>7. l = IF a <= b THEN a ELSE b
  BY <1>5
<1> QED BY <1>4, <1>5, <1>6, <1>7

\* The largest of three.
LEMMA OfThree ==
  ASSUME NEW a \in Int, NEW b \in Int, NEW c \in Int
  PROVE  Max({a, b, c}) \in Int
<1>1. \E x \in {a, b, c} : \A y \in {a, b, c} : x >= y
  <2>1. CASE a >= b /\ a >= c BY <2>1
  <2>2. CASE b >= a /\ b >= c BY <2>2
  <2>3. CASE c >= a /\ c >= b BY <2>3
  <2> QED BY <2>1, <2>2, <2>3
<1>2. Max({a, b, c}) \in {a, b, c}
  BY <1>1 DEF Max
<1> QED BY <1>2

\* The largest of some natural numbers below a limit.
LEMMA LargestBelow ==
  ASSUME NEW N \in Nat, NEW S \in SUBSET (0 .. N), S # {}
  PROVE  Max(S) \in S
<1> DEFINE T == {N - x : x \in S}
<1>1. \A x \in S : x \in Int /\ N - x \in Nat
  OBVIOUS
<1>2. T \in SUBSET Nat
  BY <1>1, Zenon
<1>3. T # {}
  BY Zenon
<1>4. PICK t \in T : \A y \in T : t <= y
  BY <1>2, <1>3, LeastElement, Zenon
<1>5. PICK x \in S : t = N - x
  BY Zenon
<1>6. ASSUME NEW y \in S PROVE x >= y
  <2>1. t <= N - y
    BY <1>4, Zenon
  <2> QED BY <1>1, <1>5, <2>1
<1>7. \E z \in S : \A y \in S : z >= y
  BY <1>6, Zenon
<1> QED BY <1>7, Zenon DEF Max

-----------------------------------------------------------------------------
\* A function on the indices of a sequence is a sequence.
LEMMA ListIs ==
  ASSUME NEW S, NEW X, NEW s \in Seq(X), NEW f, DOMAIN f = DOMAIN s, f = [i \in DOMAIN s |-> f[i]],
         \A i \in DOMAIN s : f[i] \in S
  PROVE  f \in Seq(S) /\ Len(f) = Len(s)
<1>1. DOMAIN s = 1 .. Len(s) /\ Len(s) \in Nat
  OBVIOUS
<1> QED BY <1>1

\* Twice the median is the sum of two members.
LEMMA MedianIs ==
  ASSUME NEW S, NEW s \in Seq(S), Len(s) >= 1
  PROVE  \E a, b \in S : Median2(s) = a + b
<1> DEFINE before == [a, b \in Range(s) |-> a < b]
           sorted == Sorted(s, before)
           n == Len(s)
<1>1. sorted \in Seq(S) /\ Len(sorted) = n /\ n \in Nat /\ n >= 1
  BY SortedLength
<1>2. Median2(s) = sorted[(n + 1) \div 2] + sorted[(n + 2) \div 2]
  BY DEF Median2
<1> HIDE DEF sorted, n
<1>3. (n + 1) \div 2 \in 1 .. n /\ (n + 2) \div 2 \in 1 .. n
  BY <1>1
<1>4. sorted[(n + 1) \div 2] \in S /\ sorted[(n + 2) \div 2] \in S
  BY <1>1, <1>3
<1> QED BY <1>2, <1>4

\* A moving average of integers has one integer for each of them.
LEMMA EmaType ==
  ASSUME NEW values \in Seq(Int), NEW span \in Nat
  PROVE  Ema(values, span) \in Seq(Int) /\ Len(Ema(values, span)) = Len(values)
<1> DEFINE step == [i \in DOMAIN values |-> [mean \in Int |->
                      IF i = 1 THEN values[1] ELSE (2 * values[i] + (span - 1) * mean) \div (span + 1)]]
           n == Len(values)
           means == Scan(0, step, n)
<1>1. Ema(values, span) = [i \in DOMAIN values |-> means[i]]
  BY DEF Ema
<1>2. DOMAIN values = 1 .. n /\ n \in Nat /\ \A i \in 1 .. n : values[i] \in Int
  OBVIOUS
<1> HIDE DEF n
<1>3. step \in Rounds(Int, n)
  <2>1. ASSUME NEW i \in 1 .. n, NEW mean \in Int
        PROVE  (IF i = 1 THEN values[1] ELSE (2 * values[i] + (span - 1) * mean) \div (span + 1)) \in Int
    <3>1. 2 * values[i] + (span - 1) * mean \in Int
      BY <1>2
    <3>2. span + 1 \in Nat \ {0}
      OBVIOUS
    <3>3. \A a \in Int, k \in Nat \ {0} : a \div k \in Int
      OBVIOUS
    <3>4. (2 * values[i] + (span - 1) * mean) \div (span + 1) \in Int
      BY ONLY <3>1, <3>2, <3>3
    <3>5. i = 1 => values[1] \in Int
      BY <1>2
    <3> QED BY <3>4, <3>5, Zenon
  <2>2. \A i \in 1 .. n : [mean \in Int |->
            IF i = 1 THEN values[1] ELSE (2 * values[i] + (span - 1) * mean) \div (span + 1)] \in [Int -> Int]
    BY <2>1, Zenon
  <2> QED BY <1>2, <2>2, Zenon DEF Rounds
<1> HIDE DEF step
<1>4. means \in [0 .. n -> Int]
  <2>1. 0 \in Int
    OBVIOUS
  <2> QED BY <1>2, <1>3, <2>1, ScanDefinition
<1> HIDE DEF means
<1>5. \A i \in 1 .. n : means[i] \in Int
  BY <1>2, <1>4
<1> QED BY <1>1, <1>2, <1>5 DEF n

\* A whole number divided is one.
LEMMA DivisionType ==
  ASSUME NEW a \in Int, NEW k \in Nat \ {0}
  PROVE  a \div k \in Int
OBVIOUS

\* The fields of a bar.
LEMMA BarIs ==
  ASSUME NEW b \in Bars
  PROVE  /\ b.time \in Nat /\ b.open \in Int /\ b.high \in Int /\ b.low \in Int
         /\ b.close \in Int /\ b.volume \in Int
BY DEF Bars

\* What a field of some bars is.
LEMMA FieldsAre ==
  ASSUME NEW bars \in Seq(Bars)
  PROVE  /\ \A f \in {Field(bars, LAMBDA b : b.high), Field(bars, LAMBDA b : b.low),
                      Field(bars, LAMBDA b : b.volume), Field(bars, LAMBDA b : b.close), Closes(bars)} :
              f \in Seq(Int) /\ Len(f) = Len(bars)
<1>1. \A i \in DOMAIN bars : bars[i] \in Bars
  OBVIOUS
<1>0. Fine \in Int
  BY StrategyAssumption
<1>2. \A i \in DOMAIN bars : /\ bars[i].high \in Int /\ bars[i].low \in Int /\ bars[i].volume \in Int
                             /\ bars[i].close \in Int /\ Fine * bars[i].close \in Int
  <2> TAKE i \in DOMAIN bars
  <2>1. /\ bars[i].high \in Int /\ bars[i].low \in Int /\ bars[i].volume \in Int
        /\ bars[i].close \in Int
    BY <1>1, BarIs
  <2> QED BY <1>0, <2>1
<1>3. DOMAIN bars = 1 .. Len(bars) /\ Len(bars) \in Nat
  OBVIOUS
<1>4. [i \in DOMAIN bars |-> bars[i].high] \in Seq(Int) /\ Len([i \in DOMAIN bars |-> bars[i].high]) = Len(bars)
  BY <1>2, <1>3
<1>5. [i \in DOMAIN bars |-> bars[i].low] \in Seq(Int) /\ Len([i \in DOMAIN bars |-> bars[i].low]) = Len(bars)
  BY <1>2, <1>3
<1>6. [i \in DOMAIN bars |-> bars[i].volume] \in Seq(Int) /\ Len([i \in DOMAIN bars |-> bars[i].volume]) = Len(bars)
  BY <1>2, <1>3
<1>7. [i \in DOMAIN bars |-> bars[i].close] \in Seq(Int) /\ Len([i \in DOMAIN bars |-> bars[i].close]) = Len(bars)
  BY <1>2, <1>3
<1>8. [i \in DOMAIN bars |-> Fine * bars[i].close] \in Seq(Int)
      /\ Len([i \in DOMAIN bars |-> Fine * bars[i].close]) = Len(bars)
  BY <1>2, <1>3
<1> QED BY <1>4, <1>5, <1>6, <1>7, <1>8 DEF Field, Closes

\* The average range of bars has one integer for each of them.
LEMMA AtrType ==
  ASSUME NEW bars \in Seq(Bars)
  PROVE  Atr(bars) \in Seq(Int) /\ Len(Atr(bars)) = Len(bars)
<1> DEFINE range(i) ==
             LET b == bars[i]
                 before == bars[i - 1].close
             IN IF i = 1 THEN b.high - b.low
                ELSE Max({b.high - b.low, Abs(b.high - before), Abs(b.low - before)})
           ranges == [i \in DOMAIN bars |-> Fine * range(i)]
<1>1. DOMAIN bars = 1 .. Len(bars) /\ Len(bars) \in Nat /\ \A i \in DOMAIN bars : bars[i] \in Bars
  OBVIOUS
<1>2. ASSUME NEW i \in DOMAIN bars PROVE range(i) \in Int
  <2>1. bars[i].high \in Int /\ bars[i].low \in Int
    BY <1>1, BarIs
  <2>2. CASE i = 1
    BY <2>1, <2>2
  <2>3. CASE i # 1
    <3>1. i - 1 \in DOMAIN bars
      BY <1>1, <2>3
    <3>2. bars[i - 1].close \in Int
      BY <1>1, <3>1, BarIs
    <3>3. /\ bars[i].high - bars[i].low \in Int
          /\ Abs(bars[i].high - bars[i - 1].close) \in Int
          /\ Abs(bars[i].low - bars[i - 1].close) \in Int
      <4>1. \A x \in Int, y \in Int : Abs(x - y) \in Int /\ x - y \in Int
        BY DEF Abs
      <4> QED BY <2>1, <3>2, <4>1
    <3>4. Max({bars[i].high - bars[i].low, Abs(bars[i].high - bars[i - 1].close),
               Abs(bars[i].low - bars[i - 1].close)}) \in Int
      BY <3>3, OfThree
    <3> QED BY <2>3, <3>4
  <2> QED BY <2>2, <2>3
<1>3. Atr(bars) = Ema(ranges, Spans.range)
  BY DEF Atr
<1> HIDE DEF range
<1>4. \A i \in DOMAIN bars : Fine * range(i) \in Int
  <2>1. Fine \in Int
    BY StrategyAssumption
  <2>2. \A i \in DOMAIN bars : range(i) \in Int
    BY <1>2
  <2> QED BY <2>1, <2>2
<1>5. ranges \in Seq(Int) /\ Len(ranges) = Len(bars)
  BY <1>1, <1>4
<1> HIDE DEF ranges
<1>6. Spans.range \in Nat
  BY StrategyAssumption
<1> QED BY <1>3, <1>5, <1>6, EmaType

\* Bars of another width are bars.
LEMMA AggregateIs ==
  ASSUME NEW m1 \in Seq(Bars), NEW width \in Nat \ {0}
  PROVE  AggregateBars(m1, width) \in Seq(Bars)
<1> DEFINE Group(t) == Only(m1, {b \in Range(m1) : t <= b.time /\ b.time < t + width})
           last == IF m1 = <<>> THEN 0 ELSE Last(m1).time \div width + 1
           grid == [i \in 1 .. last |-> width * (i - 1)]
           Bar(t) ==
             LET g == Group(t)
             IN [time |-> t, open |-> Head(g).open, close |-> Last(g).close,
                 high |-> Highest(Field(g, LAMBDA b : b.high)),
                 low |-> Lowest(Field(g, LAMBDA b : b.low)),
                 volume |-> Total(Field(g, LAMBDA b : b.volume))]
           whole == {t \in Range(grid) : Len(Group(t)) = width}
           full == Only(grid, whole)
<1>1. AggregateBars(m1, width) = [i \in DOMAIN full |-> Bar(full[i])]
  BY DEF AggregateBars
<1>2. last \in Nat
  <2>1. CASE m1 = <<>>
    BY <2>1
  <2>2. CASE m1 # <<>>
    <3>1. Last(m1) \in Bars
      <4>1. Len(m1) \in 1 .. Len(m1)
        BY <2>2
      <4> QED BY <4>1 DEF Last
    <3>2. Last(m1).time \in Nat
      BY <3>1, BarIs
    <3>3. \A a \in Nat, k \in Nat \ {0} : a \div k + 1 \in Nat
      OBVIOUS
    <3>4. Last(m1).time \div width + 1 \in Nat
      BY <3>2, <3>3
    <3> QED BY <2>2, <3>4
  <2> QED BY <2>1, <2>2
<1> HIDE DEF last
<1>3. grid \in Seq(Nat) /\ Range(grid) \subseteq Nat
  <2>1. \A i \in 1 .. last : width * (i - 1) \in Nat
    BY <1>2
  <2>2. grid \in Seq(Nat)
    BY <1>2, <2>1
  <2> HIDE DEF grid
  <2> QED BY <2>2, RangeInside
<1> HIDE DEF grid
<1>4. full \in Seq(whole) /\ whole \subseteq Nat
  <2>1. whole \subseteq Nat
    BY <1>3
  <2> HIDE DEF whole
  <2> QED BY <1>3, <2>1, OnlyType
<1>5. ASSUME NEW t \in whole PROVE Bar(t) \in Bars
  <2>1. t \in Nat /\ Len(Group(t)) = width
    BY <1>4
  <2>2. PICK B \in SUBSET Range(m1) : Group(t) = Only(m1, B)
    OBVIOUS
  <2>3. Only(m1, B) \in Seq(B) /\ B \subseteq Bars
    <3>1. Range(m1) \subseteq Bars
      BY RangeInside
    <3> QED BY <2>2, <3>1, OnlyType
  <2>4. Group(t) \in Seq(Bars)
    BY <2>2, <2>3, Widened
  <2>5. PICK g \in Seq(Bars) : g = Group(t) /\ Len(g) = width
    BY <2>1, <2>4
  <2>6. Head(g) \in Bars /\ Last(g) \in Bars
    <3>1. 1 \in DOMAIN g /\ Len(g) \in DOMAIN g
      BY <2>5
    <3> QED BY <3>1 DEF Last
  <2>7. Head(g).open \in Int /\ Last(g).close \in Int
    BY <2>6, BarIs
  <2>8. /\ Highest(Field(g, LAMBDA b : b.high)) \in Int
        /\ Lowest(Field(g, LAMBDA b : b.low)) \in Int
        /\ Total(Field(g, LAMBDA b : b.volume)) \in Int
    <3>1. PICK h \in Seq(Int) : h = Field(g, LAMBDA b : b.high) /\ Len(h) = Len(g)
      BY <2>5, FieldsAre
    <3>2. PICK l \in Seq(Int) : l = Field(g, LAMBDA b : b.low) /\ Len(l) = Len(g)
      BY <2>5, FieldsAre
    <3>3. PICK v \in Seq(Int) : v = Field(g, LAMBDA b : b.volume)
      BY <2>5, FieldsAre
    <3>4. Len(g) >= 1
      BY <2>5
    <3>5. Highest(h) \in Int /\ Lowest(l) \in Int
      BY <3>1, <3>2, <3>4, HighestIs
    <3>6. Total(v) \in Int
      BY TotalType
    <3> QED BY <3>1, <3>2, <3>3, <3>5, <3>6
  <2>9. Bar(t) = [time |-> t, open |-> Head(g).open, close |-> Last(g).close,
                  high |-> Highest(Field(g, LAMBDA b : b.high)),
                  low |-> Lowest(Field(g, LAMBDA b : b.low)),
                  volume |-> Total(Field(g, LAMBDA b : b.volume))]
    BY <2>5
  <2> HIDE DEF Bar, Group, whole
  <2> QED BY <2>1, <2>7, <2>8, <2>9 DEF Bars
<1> HIDE DEF whole, Bar, full
<1>6. DOMAIN full = 1 .. Len(full) /\ Len(full) \in Nat /\ \A i \in DOMAIN full : full[i] \in whole
  BY <1>4
<1> QED BY <1>1, <1>5, <1>6

\* What the parameters of the strategies are.
LEMMA StrategyIs ==
  /\ Fine \in Nat \ {0} /\ Fine \in Int
  /\ Minutes.m5 \in Nat \ {0} /\ Minutes.m15 \in Nat \ {0} /\ Minutes.h1 \in Nat \ {0}
  /\ Spans.fast \in Nat /\ Spans.slow \in Nat /\ Spans.range \in Nat
  /\ Windows.median \in Nat \ {0} /\ Windows.breakout \in Nat \ {0} /\ Windows.pullback \in Nat
  /\ Warm.first \in Nat /\ Warm.first > Windows.breakout + 1
  /\ Warm.first > Windows.median /\ Warm.first > Windows.pullback
<1>1. Windows.median \in Nat \ {0} /\ Windows.breakout \in Nat \ {0} /\ Windows.pullback \in Nat
  BY StrategyAssumption
<1>2. Minutes.m5 \in Nat \ {0} /\ Minutes.m15 \in Nat \ {0} /\ Minutes.h1 \in Nat \ {0}
  BY StrategyAssumption
<1>3. Spans.fast \in Nat /\ Spans.slow \in Nat /\ Spans.range \in Nat
  BY StrategyAssumption
<1> QED BY <1>1, <1>2, <1>3, StrategyAssumption

\* The larger and the smaller of two numbers are numbers.
LEMMA TwoType ==
  ASSUME NEW a \in Int, NEW b \in Int
  PROVE  Max({a, b}) \in Int /\ Min({a, b}) \in Int
BY OfTwo

\* Some values of a sequence of numbers.
LEMMA PartIs ==
  ASSUME NEW s \in Seq(Int), NEW i \in Int, NEW n \in Nat, i <= Len(s)
  PROVE  /\ n <= i => LastOf(s, i, n) \in Seq(Int) /\ Len(LastOf(s, i, n)) = n
         /\ n < i => Before(s, i, n) \in Seq(Int) /\ Len(Before(s, i, n)) = n
<1>1. Len(s) \in Nat /\ \A k \in 1 .. Len(s) : s[k] \in Int
  OBVIOUS
<1>2. ASSUME n <= i PROVE LastOf(s, i, n) \in Seq(Int) /\ Len(LastOf(s, i, n)) = n
  <2>1. i - n + 1 \in Int /\ \A k \in i - n + 1 .. i : s[k] \in Int
    BY <1>1, <1>2
  <2>2. /\ SubSeq(s, i - n + 1, i) \in Seq(Int)
        /\ Len(SubSeq(s, i - n + 1, i)) = IF i - n + 1 <= i THEN i - (i - n + 1) + 1 ELSE 0
    BY <2>1, SubSeqProperties
  <2>3. (IF i - n + 1 <= i THEN i - (i - n + 1) + 1 ELSE 0) = n
    OBVIOUS
  <2> QED BY <2>2, <2>3 DEF LastOf
<1>3. ASSUME n < i PROVE Before(s, i, n) \in Seq(Int) /\ Len(Before(s, i, n)) = n
  <2>1. i - n \in Int /\ i - 1 \in Int /\ \A k \in i - n .. i - 1 : s[k] \in Int
    BY <1>1, <1>3
  <2>2. /\ SubSeq(s, i - n, i - 1) \in Seq(Int)
        /\ Len(SubSeq(s, i - n, i - 1)) = IF i - n <= i - 1 THEN (i - 1) - (i - n) + 1 ELSE 0
    BY <2>1, SubSeqProperties
  <2>3. (IF i - n <= i - 1 THEN (i - 1) - (i - n) + 1 ELSE 0) = n
    OBVIOUS
  <2> QED BY <2>2, <2>3 DEF Before
<1> QED BY <1>2, <1>3

\* The quantities from which a setup makes its stop and its target.
LEMMA LevelsAre ==
  ASSUME NEW m5 \in Seq(Bars), NEW i \in Warm.first .. Len(m5) - 1
  PROVE  /\ i \in DOMAIN m5 /\ i - 1 \in DOMAIN m5
         /\ m5[i] \in Bars /\ m5[i - 1] \in Bars
         /\ Atr(m5)[i] \in Int
         /\ Highest(Before(Field(m5, LAMBDA b : b.high), i - 1, Windows.breakout)) \in Int
         /\ Lowest(LastOf(Field(m5, LAMBDA b : b.low), i, Windows.pullback + 1)) \in Int
         /\ Total(LastOf(Closes(m5), i, Windows.median)) \div Windows.median \in Int
<1>1. /\ Len(m5) \in Nat /\ DOMAIN m5 = 1 .. Len(m5) /\ Warm.first \in Nat /\ i \in Int
      /\ Windows.breakout \in Nat \ {0} /\ Windows.median \in Nat \ {0} /\ Windows.pullback \in Nat
      /\ i > Windows.breakout + 1 /\ i > Windows.median /\ i > Windows.pullback
      /\ i <= Len(m5)
  <2>1. Len(m5) \in Nat /\ DOMAIN m5 = 1 .. Len(m5)
    OBVIOUS
  <2>2. /\ Warm.first \in Nat /\ Windows.breakout \in Nat \ {0}
        /\ Windows.median \in Nat \ {0} /\ Windows.pullback \in Nat
        /\ Warm.first > Windows.breakout + 1 /\ Warm.first > Windows.median
        /\ Warm.first > Windows.pullback
    BY StrategyIs
  <2>3. i \in Int /\ i >= Warm.first /\ i <= Len(m5) - 1
    BY <2>1, <2>2
  <2>4. PICK n \in Nat, f \in Nat, b \in Nat, m \in Nat, q \in Nat :
          n = Len(m5) /\ f = Warm.first /\ b = Windows.breakout /\ m = Windows.median
          /\ q = Windows.pullback
    BY <2>1, <2>2
  <2>5. i > b + 1 /\ i > m /\ i > q /\ i <= n
    <3>1. f > b + 1 /\ f > m /\ f > q /\ i >= f /\ i <= n - 1
      BY <2>2, <2>3, <2>4
    <3> QED BY ONLY <3>1, n \in Nat, f \in Nat, b \in Nat, m \in Nat, q \in Nat, i \in Int, <2>3
  <2> QED BY <2>1, <2>2, <2>3, <2>4, <2>5
<1>2. i \in DOMAIN m5 /\ i - 1 \in DOMAIN m5
  BY <1>1
<1>3. Atr(m5)[i] \in Int
  <2>1. PICK a \in Seq(Int) : a = Atr(m5) /\ Len(a) = Len(m5)
    BY AtrType
  <2>2. i \in 1 .. Len(a)
    BY <1>1, <2>1
  <2> QED BY <2>1, <2>2
<1>4. Highest(Before(Field(m5, LAMBDA b : b.high), i - 1, Windows.breakout)) \in Int
  <2>1. PICK h \in Seq(Int) : h = Field(m5, LAMBDA b : b.high) /\ Len(h) = Len(m5)
    BY FieldsAre
  <2>2. i - 1 \in Int /\ Windows.breakout \in Nat /\ i - 1 <= Len(h) /\ Windows.breakout < i - 1
    BY <1>1, <2>1
  <2>3. PICK p \in Seq(Int) : p = Before(h, i - 1, Windows.breakout) /\ Len(p) = Windows.breakout
    BY <2>2, PartIs
  <2>4. Highest(p) \in Int
    BY <1>1, <2>3, HighestIs
  <2> QED BY <2>1, <2>3, <2>4
<1>5. Lowest(LastOf(Field(m5, LAMBDA b : b.low), i, Windows.pullback + 1)) \in Int
  <2>1. PICK l \in Seq(Int) : l = Field(m5, LAMBDA b : b.low) /\ Len(l) = Len(m5)
    BY FieldsAre
  <2>2. Windows.pullback + 1 \in Nat /\ i <= Len(l) /\ Windows.pullback + 1 <= i
    BY <1>1, <2>1
  <2>3. PICK p \in Seq(Int) :
          p = LastOf(l, i, Windows.pullback + 1) /\ Len(p) = Windows.pullback + 1
    <3> PICK n : n = Windows.pullback + 1
      OBVIOUS
    <3>1. LastOf(l, i, n) \in Seq(Int) /\ Len(LastOf(l, i, n)) = n
      BY <1>1, <2>2, PartIs
    <3> QED BY <3>1
  <2>4. Lowest(p) \in Int
    BY <1>1, <2>3, HighestIs
  <2> QED BY <2>1, <2>3, <2>4
<1>6. Total(LastOf(Closes(m5), i, Windows.median)) \div Windows.median \in Int
  <2>1. PICK c \in Seq(Int) : c = Closes(m5) /\ Len(c) = Len(m5)
    BY FieldsAre
  <2>2. Windows.median \in Nat /\ i <= Len(c) /\ Windows.median <= i
    BY <1>1, <2>1
  <2>3. LastOf(c, i, Windows.median) \in Seq(Int)
    BY <1>1, <2>2, PartIs
  <2>4. Total(LastOf(c, i, Windows.median)) \in Int
    BY <2>3, TotalType
  <2> QED BY <1>1, <2>1, <2>4, DivisionType
<1> QED BY <1>2, <1>3, <1>4, <1>5, <1>6

\* The prices of a setup are whole.
LEMMA SetupV1Is ==
  ASSUME NEW m5 \in Seq(Bars), NEW i \in Warm.first .. Len(m5) - 1, NEW regime
  PROVE  SetupV1(m5, i, regime).stop \in Int /\ SetupV1(m5, i, regime).target \in Int
<1> DEFINE closes == Closes(m5)
           fast == Ema(closes, Spans.fast)
           slow == Ema(closes, Spans.slow)
           atr == Atr(m5)[i]
           volumes == Field(m5, LAMBDA b : b.volume)
           median2(j) == Median2(LastOf(volumes, j, Windows.median))
           mean(j) == Total(LastOf(closes, j, Windows.median)) \div Windows.median
           current == m5[i]
           previous == m5[i - 1]
           level == Highest(Before(Field(m5, LAMBDA b : b.high), i - 1, Windows.breakout))
           close == Fine * current.close
           lower == LowerBand(closes, i - 1, Windows.median)
           breakout == /\ previous.close > level
                       /\ 10000 * current.low <= 10015 * level /\ current.close > level
                       /\ 20 * previous.volume >= 12 * median2(i - 1)
                       /\ regime # "TREND_DOWN"
           pullback == /\ regime = "TREND_UP" /\ fast[i] > slow[i]
                       /\ 1000 * Fine * current.low <= 1001 * fast[i] /\ close > fast[i]
                       /\ current.close > previous.close
                       /\ 20 * current.volume >= 8 * median2(i)
           reversion == /\ regime = "RANGE"
                        /\ closes[i - 1] < lower /\ current.close > previous.close
                        /\ mean(i) > close
           lows == LastOf(Field(m5, LAMBDA b : b.low), i, Windows.pullback + 1)
           first == [setup |-> "BREAKOUT_RETEST", confidence |-> 75, target |-> close + 2 * atr,
                     stop |-> Min({Fine * current.low, Fine * level - (35 * atr) \div 100})]
           second == [setup |-> "MOMENTUM_PULLBACK", confidence |-> 70,
                      target |-> close + (3 * atr) \div 2,
                      stop |-> Fine * Lowest(lows) - atr \div 10]
           third == [setup |-> "RANGE_MEAN_REVERSION", target |-> mean(i),
                     confidence |-> Min({80, 55 + (10 * (lower - closes[i - 1])) \div Max({atr, 1})}),
                     stop |-> Fine * Min({previous.low, current.low}) - atr \div 4]
           none == [setup |-> "NONE", confidence |-> 0, target |-> close, stop |-> close]
<1>1. SetupV1(m5, i, regime) = CASE breakout -> first
                                 [] ~breakout /\ pullback -> second
                                 [] ~breakout /\ ~pullback /\ reversion -> third
                                 [] OTHER -> none
  BY DEF SetupV1
<1>2. /\ atr \in Int /\ level \in Int /\ Lowest(lows) \in Int /\ mean(i) \in Int
      /\ current.low \in Int /\ current.close \in Int /\ previous.low \in Int /\ Fine \in Int
  <2>1. /\ atr \in Int /\ level \in Int /\ Lowest(lows) \in Int /\ mean(i) \in Int
        /\ current \in Bars /\ previous \in Bars
    BY LevelsAre
  <2> HIDE DEF atr, level, lows, mean, current, previous
  <2> QED BY <2>1, BarIs, StrategyIs
<1>3. /\ first.target = close + 2 * atr
      /\ first.stop = Min({Fine * current.low, Fine * level - (35 * atr) \div 100})
      /\ second.target = close + (3 * atr) \div 2
      /\ second.stop = Fine * Lowest(lows) - atr \div 10
      /\ third.target = mean(i)
      /\ third.stop = Fine * Min({previous.low, current.low}) - atr \div 4
      /\ none.target = close /\ none.stop = close
  OBVIOUS
<1> HIDE DEF first, second, third, none, breakout, pullback, reversion, level, lows, atr, mean,
             current, previous
<1>4. SetupV1(m5, i, regime) \in {first, second, third, none}
  BY <1>1
<1>5. close \in Int /\ Fine * current.low \in Int /\ Fine * level - (35 * atr) \div 100 \in Int
  BY <1>2
<1>6. first.target \in Int /\ first.stop \in Int
  <2>1. Min({Fine * current.low, Fine * level - (35 * atr) \div 100}) \in Int
    <3>1. Fine * current.low \in Int /\ Fine * level - (35 * atr) \div 100 \in Int
      BY <1>5
    <3> QED BY ONLY <3>1, TwoType
  <2> HIDE DEF close
  <2> QED BY <1>2, <1>3, <1>5, <2>1
<1>7. second.target \in Int /\ second.stop \in Int
  <2>1. (3 * atr) \div 2 \in Int /\ atr \div 10 \in Int /\ Fine * Lowest(lows) \in Int
    BY <1>2
  <2> HIDE DEF close
  <2>2. \A x \in Int, y \in Int : x + y \in Int /\ x - y \in Int
    OBVIOUS
  <2>3. close + (3 * atr) \div 2 \in Int
    BY <1>5, <2>1, <2>2
  <2>4. Fine * Lowest(lows) - atr \div 10 \in Int
    BY <2>1, <2>2
  <2> QED BY <1>3, <2>3, <2>4
<1>8. third.target \in Int /\ third.stop \in Int
  <2>1. Min({previous.low, current.low}) \in Int
    BY <1>2, OfTwo
  <2> QED BY <1>2, <1>3, <2>1
<1>9. none.target \in Int /\ none.stop \in Int
  BY <1>3, <1>5
<1> QED BY <1>4, <1>6, <1>7, <1>8, <1>9

\* The setup of V2 has whole levels.
LEMMA SetupV2Is ==
  ASSUME NEW m5 \in Seq(Bars), NEW i \in Warm.first .. Len(m5) - 1, NEW cost
  PROVE  SetupV2(m5, i, cost).stop \in Int /\ SetupV2(m5, i, cost).target \in Int
<1> DEFINE atr == Atr(m5)[i]
           close == Fine * m5[i].close
           low == Lowest(LastOf(Field(m5, LAMBDA b : b.low), i, Windows.pullback + 1))
           stop == Fine * low - atr \div 10
           distance == Max({2 * (close - stop), (6 * close) \div 1000})
<1>1. SetupV2(m5, i, cost).stop = stop /\ SetupV2(m5, i, cost).target = close + distance
  BY DEF SetupV2
<1>2. atr \in Int /\ low \in Int /\ m5[i].close \in Int /\ Fine \in Int
  <2>1. atr \in Int /\ low \in Int /\ m5[i] \in Bars
    BY LevelsAre
  <2> HIDE DEF atr, low
  <2> QED BY <2>1, BarIs, StrategyIs
<1> HIDE DEF atr, low
<1>3. close \in Int /\ stop \in Int
  BY <1>2
<1> HIDE DEF close, stop
<1>4. 2 * (close - stop) \in Int /\ (6 * close) \div 1000 \in Int
  BY <1>3
<1>5. distance \in Int
  BY <1>4, OfTwo
<1> QED BY <1>1, <1>3, <1>5

\* A signal has whole prices.
SignalIs(x) == x.entry \in Int /\ x.stop \in Int /\ x.target \in Int

\* A signal made of a bar and of a setup with whole levels.
LEMMA SignalOfIs ==
  ASSUME NEW bar \in Bars, NEW setup, setup.stop \in Int, setup.target \in Int, NEW atr
  PROVE  SignalIs(SignalOf(bar, setup, atr))
<1>1. Ticks(setup.stop) \in Int /\ Ticks(setup.target) \in Int
  BY StrategyAssumption, DivisionType DEF Ticks
<1>2. bar.close \in Int
  BY BarIs
<1> QED BY <1>1, <1>2 DEF SignalIs, SignalOf

\* The signals of V1 have whole prices, whatever the bars.
LEMMA GenerateV1Is ==
  ASSUME NEW m1 \in Seq(Bars)
  PROVE  \A x \in GenerateV1(m1) : SignalIs(x)
<1> SUFFICES ASSUME NEW x \in GenerateV1(m1) PROVE SignalIs(x)
  OBVIOUS
<1> DEFINE m5 == AggregateBars(m1, Minutes.m5)
<1>1. m5 \in Seq(Bars)
  BY AggregateIs, StrategyAssumption
<1>2. \E i \in Warm.first .. Len(m5) - 1 : \E regime :
        x = SignalOf(m5[i], SetupV1(m5, i, regime), Atr(m5)[i])
  BY Zenon DEF GenerateV1
<1> HIDE DEF m5
<1>3. PICK i \in Warm.first .. Len(m5) - 1 : \E regime :
        x = SignalOf(m5[i], SetupV1(m5, i, regime), Atr(m5)[i])
  BY <1>2
<1>4. PICK regime : x = SignalOf(m5[i], SetupV1(m5, i, regime), Atr(m5)[i])
  BY <1>3
<1>5. m5[i] \in Bars
  BY <1>1, LevelsAre
<1> QED BY <1>1, <1>4, <1>5, SetupV1Is, SignalOfIs

\* So have those of V2, whatever the cost of a round trip.
LEMMA GenerateV2Is ==
  ASSUME NEW m1 \in Seq(Bars), NEW cost
  PROVE  \A x \in GenerateV2(m1, cost) : SignalIs(x)
<1> SUFFICES ASSUME NEW x \in GenerateV2(m1, cost) PROVE SignalIs(x)
  OBVIOUS
<1> DEFINE m5 == AggregateBars(m1, Minutes.m5)
<1>1. m5 \in Seq(Bars)
  BY AggregateIs, StrategyAssumption
<1>2. PICK i \in Warm.first .. Len(m5) - 1 : x = SignalOf(m5[i], SetupV2(m5, i, cost), Atr(m5)[i])
  BY Zenon DEF GenerateV2
<1> HIDE DEF m5
<1>3. m5[i] \in Bars
  BY <1>1, LevelsAre
<1> QED BY <1>1, <1>2, <1>3, SetupV2Is, SignalOfIs

\* The bar at a time is a bar, when there is one.
LEMMA BarAtIs ==
  ASSUME NEW m5 \in Seq(Bars), NEW t, BarAt(m5, t) # None
  PROVE  BarAt(m5, t) \in Bars
<1> DEFINE S == {b \in Range(m5) : b.time = t}
           at == Only(m5, S)
<1>1. BarAt(m5, t) = IF at = <<>> THEN None ELSE Head(at)
  BY DEF BarAt
<1>2. S \subseteq Bars
  BY RangeInside
<1>3. at \in Seq(Bars)
  <2> HIDE DEF S
  <2>1. at \in Seq(S)
    BY OnlyType
  <2> HIDE DEF at
  <2> QED BY <1>2, <2>1, Widened
<1> HIDE DEF at
<1> QED BY <1>1, <1>3

\* A symbol and a whole range: what a decision of V3 keeps of the features.
FeatureIs(f, S) == f.symbol \in S /\ f.atr \in Int

\* What is computed of a symbol at a time.
LEMMA FeaturesAre ==
  ASSUME NEW symbol, NEW m5 \in Seq(Bars), NEW t \in DOMAIN Features(symbol, m5)
  PROVE  FeatureIs(Features(symbol, m5)[t], {symbol})
<1> DEFINE indices == IF Len(m5) < FewestBars THEN {} ELSE FirstFeature .. Len(m5) - 1
           At(u) == CHOOSE i \in indices : m5[i].time + Minutes.m5 = u
           T == {m5[i].time + Minutes.m5 : i \in indices}
<1>1. Features(symbol, m5) = [u \in T |-> Feature(symbol, m5, At(u))]
  BY DEF Features
<1>2. indices \subseteq 1 .. Len(m5)
  <2>1. FirstFeature \in Nat /\ Lags.d1 \in Nat /\ FirstFeature > Lags.d1 /\ Len(m5) \in Nat
    BY CrossSectionAssumption
  <2> QED BY <2>1
<1> HIDE DEF indices
<1>3. At(t) \in indices
  <2>1. \E i \in indices : m5[i].time + Minutes.m5 = t
    BY <1>1
  <2> QED BY <2>1
<1> HIDE DEF At
<1>4. Features(symbol, m5)[t] = Feature(symbol, m5, At(t))
  BY <1>1
<1>5. Atr(m5)[At(t)] \in Int
  <2>1. PICK a \in Seq(Int) : a = Atr(m5) /\ Len(a) = Len(m5)
    BY AtrType
  <2>2. At(t) \in 1 .. Len(a)
    BY <1>2, <1>3, <2>1
  <2> QED BY <2>1, <2>2
<1>6. /\ Feature(symbol, m5, At(t)).symbol = symbol
      /\ Feature(symbol, m5, At(t)).atr = Atr(m5)[At(t)]
  BY DEF Feature
<1> QED BY <1>4, <1>5, <1>6 DEF FeatureIs

\* A ranking of features keeps them.
RankedIs(r, S) == \E X : r \in Seq(X) /\ \A x \in X : FeatureIs(x.feature, S)

\* The ranking of features keeps them, whatever the reference.
LEMMA RankingIs ==
  ASSUME NEW S, NEW n \in Nat, NEW features, features = [i \in 1 .. n |-> features[i]],
         \A i \in 1 .. n : FeatureIs(features[i], S), NEW btc
  PROVE  RankedIs(RankCrossSection(features, btc), S)
<1> DEFINE each == Scored(features, btc)
           listed == Listing(each)
           before == [a, b \in Range(listed) |-> Outranks(a, b)]
<1>1. RankCrossSection(features, btc) = Sorted(listed, before)
  BY DEF RankCrossSection
<1>2. /\ each = [i \in 1 .. n |-> each[i]]
      /\ \A i \in 1 .. n : each[i].feature = features[i]
  <2>1. DOMAIN features = 1 .. n
    OBVIOUS
  <2> QED BY <2>1 DEF Scored
<1> HIDE DEF each, before
<1> DEFINE X == {each[i] : i \in 1 .. n}
<1>3. each \in Seq(X)
  <2>1. \A i \in 1 .. n : each[i] \in X
    OBVIOUS
  <2> HIDE DEF X
  <2> QED BY <1>2, <2>1
<1>4. \A x \in X : FeatureIs(x.feature, S)
  BY <1>2
<1> HIDE DEF X
<1>5. listed \in Seq(X)
  BY <1>3, ListingIs
<1> HIDE DEF listed
<1>6. Sorted(listed, before) \in Seq(X)
  BY <1>5, SortedLength
<1> QED BY <1>1, <1>4, <1>6 DEF RankedIs

\* At each time of the sections of a universe its ranking ranks members of it.
LEMMA SectionsAre ==
  ASSUME NEW order, order \in Seq(Range(order)), NEW features, DOMAIN features = Range(order),
         \A s \in Range(order) : \A t \in DOMAIN features[s] : FeatureIs(features[s][t], {s}),
         NEW t \in DOMAIN CrossSections(order, features)
  PROVE  RankedIs(CrossSections(order, features)[t].ranked, Range(order))
<1> DEFINE times == IF {Btc, Eth} \subseteq DOMAIN features
                    THEN DOMAIN features[Btc] \intersect DOMAIN features[Eth] ELSE {}
           here(u) == {s \in Range(order) : s \in DOMAIN features /\ u \in DOMAIN features[s]}
           Present(u) == Only(order, here(u))
           Available(u) == [i \in DOMAIN Present(u) |-> features[Present(u)[i]][u]]
           T == {u \in times : Len(Present(u)) >= FewestSymbols}
<1>1. CrossSections(order, features) =
        [u \in T |-> [regime |-> Regime(Available(u), features[Btc][u], features[Eth][u]),
                      ranked |-> RankCrossSection(Available(u), features[Btc][u])]]
  BY DEF CrossSections
<1> HIDE DEF T
<1>2. CrossSections(order, features)[t].ranked = RankCrossSection(Available(t), features[Btc][t])
  BY <1>1
<1>3. Present(t) \in Seq(here(t))
  <2> HIDE DEF here
  <2> QED BY OnlyType
<1> DEFINE p == Present(t)
           a == Available(t)
<1>4. a = [i \in DOMAIN p |-> features[p[i]][t]]
  OBVIOUS
<1>5. \A s \in here(t) : s \in Range(order) /\ FeatureIs(features[s][t], Range(order))
  BY DEF FeatureIs
<1>6. p \in Seq(here(t))
  BY <1>3
<1>7. CrossSections(order, features)[t].ranked = RankCrossSection(a, features[Btc][t])
  BY <1>2
<1> HIDE DEF p, a, here, Present, Available
<1>8. Len(p) \in Nat /\ DOMAIN p = 1 .. Len(p) /\ \A i \in 1 .. Len(p) : p[i] \in here(t)
  BY <1>6
<1>9. a = [i \in 1 .. Len(p) |-> a[i]] /\ \A i \in 1 .. Len(p) : FeatureIs(a[i], Range(order))
  BY <1>4, <1>5, <1>8
<1>10. RankedIs(RankCrossSection(a, features[Btc][t]), Range(order))
  BY <1>8, <1>9, RankingIs
<1> QED BY <1>7, <1>10

\* The candidate of a section is a member of its ranking that its bar confirms.
LEMMA CandidateIs ==
  ASSUME NEW section, NEW S, RankedIs(section.ranked, S), NEW profiles, NEW bars, NEW count \in Nat,
         Evaluate(section, profiles, bars, count).candidate # None
  PROVE  LET f == Evaluate(section, profiles, bars, count).candidate.feature
         IN FeatureIs(f, S) /\ Confirmed(bars[f.symbol])
<1> DEFINE leaders == Leaders(section, count)
           tradable == {i \in DOMAIN leaders :
                          /\ FeatureGates(leaders[i], profiles)
                          /\ Confirmed(bars[leaders[i].feature.symbol])}
           candidate == Evaluate(section, profiles, bars, count).candidate
<1>1. candidate = IF tradable = {} THEN None ELSE leaders[Min(tradable)]
  BY DEF Evaluate
<1>2. PICK X : section.ranked \in Seq(X) /\ \A x \in X : FeatureIs(x.feature, S)
  BY DEF RankedIs
<1>3. leaders \in Seq(X)
  BY <1>2, FirstMembers DEF Leaders
<1>4. candidate # None
  OBVIOUS
<1> HIDE DEF leaders, candidate
<1>5. DOMAIN leaders \subseteq Nat /\ \A i \in DOMAIN leaders : leaders[i] \in X
  BY <1>3
<1>6. tradable \in SUBSET Nat /\ tradable # {}
  BY <1>1, <1>4, <1>5
<1>7. Min(tradable) \in tradable
  <2> HIDE DEF tradable
  <2> QED BY <1>6, LeastElement DEF Min
<1>8. PICK i \in tradable : candidate = leaders[i]
  BY <1>1, <1>4, <1>7
<1>9. FeatureIs(candidate.feature, S) /\ Confirmed(bars[candidate.feature.symbol])
  BY <1>2, <1>5, <1>8
<1> QED BY <1>9 DEF candidate

\* A loop over the levels of a book keeps whole quantities.
LEMMA WalkIs ==
  ASSUME NEW s \in Seq(Levels), s # <<>>, NEW start \in Walks, NEW step,
         step = [i \in DOMAIN s |-> step[i]], \A i \in DOMAIN s : step[i] \in [Walks -> Walks]
  PROVE  /\ Scan(start, step, Len(s))[Len(s)].left \in Int
         /\ Scan(start, step, Len(s))[Len(s)].other \in Int
<1>1. PICK n \in Nat : n = Len(s) /\ DOMAIN s = 1 .. n
  OBVIOUS
<1>2. step \in Rounds(Walks, n)
  BY <1>1 DEF Rounds
<1>3. PICK w \in Walks : w = Scan(start, step, n)[n]
  BY <1>1, <1>2, ScanType
<1>4. w.left \in Int /\ w.other \in Int
  BY DEF Walks
<1> QED BY <1>1, <1>3, <1>4

\* The best price of a side of the book.
LEMMA LevelIs ==
  ASSUME NEW s \in Seq(Levels), s # <<>>
  PROVE  /\ Head(s).price \in Nat \ {0} /\ Last(s).price \in Nat \ {0}
         /\ \A i \in DOMAIN s : s[i].price \in Nat \ {0} /\ s[i].quantity \in Nat
<1>1. \A l \in Levels : l.price \in Nat \ {0} /\ l.quantity \in Nat
  BY DEF Levels
<1>2. Len(s) \in Nat /\ Len(s) >= 1 /\ \A i \in DOMAIN s : s[i] \in Levels
  BY EmptySeq
<1>3. s[1] \in Levels /\ s[Len(s)] \in Levels
  BY <1>2
<1> QED BY <1>1, <1>2, <1>3 DEF Last

\* The impact of a trade on the book is a number of parts, and never a gain.
LEMMA ImpactIs ==
  ASSUME NEW p, IsPair(p)
  PROVE  BookSlippage(p, Limits.notional).impact \in Nat
<1> DEFINE notional == Limits.notional
           buyStep == [i \in DOMAIN p.asks |-> [w \in Walks |->
                         LET take == Min({w.left, p.asks[i].price * p.asks[i].quantity})
                         IN [left |-> w.left - take,
                             other |-> w.other + (D * take) \div p.asks[i].price]]]
           bought == Scan([left |-> notional, other |-> 0], buyStep, Len(p.asks))[Len(p.asks)]
           wanted == Max({1, (D * notional) \div Bid(p)})
           sellStep == [i \in DOMAIN p.bids |-> [w \in Walks |->
                          LET take == Min({w.left, D * p.bids[i].quantity})
                          IN [left |-> w.left - take, other |-> w.other + take * p.bids[i].price]]]
           sold == Scan([left |-> wanted, other |-> 0], sellStep, Len(p.bids))[Len(p.bids)]
           buyImpact ==
             IF bought.left = 0 THEN (D * D * notional) \div (Max({1, bought.other}) * Ask(p)) - D
             ELSE (D * Last(p.asks).price) \div Ask(p) - D
           sellImpact == IF sold.left = 0 THEN D - (D * sold.other) \div (wanted * Bid(p))
                         ELSE D - (D * Last(p.bids).price) \div Bid(p)
<1>1. BookSlippage(p, notional).impact = Max({buyImpact, 0}) + Max({sellImpact, 0})
  BY DEF BookSlippage
<1>2. /\ D \in Nat \ {0} /\ notional \in Nat
      /\ p.asks \in Seq(Levels) /\ p.asks # <<>> /\ p.bids \in Seq(Levels) /\ p.bids # <<>>
  BY SpotAssumption DEF IsPair
<1>3. /\ Bid(p) \in Nat \ {0} /\ Ask(p) \in Nat \ {0}
      /\ Last(p.asks).price \in Nat \ {0} /\ Last(p.bids).price \in Nat \ {0}
      /\ \A i \in DOMAIN p.asks : p.asks[i].price \in Nat \ {0} /\ p.asks[i].quantity \in Nat
      /\ \A i \in DOMAIN p.bids : p.bids[i].price \in Nat \ {0} /\ p.bids[i].quantity \in Nat
  BY <1>2, LevelIs DEF Bid, Ask
<1>4. wanted \in Nat \ {0}
  <2>1. (D * notional) \div Bid(p) \in Int
    BY <1>2, <1>3
  <2> HIDE DEF notional
  <2>2. wanted = IF 1 >= (D * notional) \div Bid(p) THEN 1 ELSE (D * notional) \div Bid(p)
    BY <2>1, OfTwo
  <2> QED BY <2>1, <2>2
<1> HIDE DEF notional, wanted
<1>5. bought.left \in Int /\ bought.other \in Int
  <2>1. \A i \in DOMAIN p.asks : buyStep[i] \in [Walks -> Walks]
    <3> SUFFICES ASSUME NEW i \in DOMAIN p.asks, NEW w \in Walks
                 PROVE  buyStep[i][w] \in Walks
      <4>1. \A i \in DOMAIN p.asks : buyStep[i] = [v \in Walks |-> buyStep[i][v]]
        OBVIOUS
      <4> HIDE DEF buyStep
      <4> QED BY <4>1
    <3> DEFINE a == p.asks[i].price * p.asks[i].quantity
               take == Min({w.left, a})
    <3>1. w.left \in Int /\ w.other \in Int /\ p.asks[i].price \in Nat \ {0}
          /\ p.asks[i].quantity \in Nat
      BY <1>3 DEF Walks
    <3>2. a \in Int
      BY <3>1
    <3> HIDE DEF a
    <3>3. take \in Int
      BY <3>1, <3>2, TwoType
    <3>4. buyStep[i][w] = [left |-> w.left - take, other |-> w.other + (D * take) \div p.asks[i].price]
      BY DEF a
    <3> HIDE DEF take
    <3>5. (D * take) \div p.asks[i].price \in Int
      BY <1>2, <3>1, <3>3
    <3> HIDE DEF buyStep, sellStep
    <3> QED BY <3>1, <3>3, <3>4, <3>5 DEF Walks
  <2>2. [left |-> notional, other |-> 0] \in Walks
    BY <1>2 DEF Walks
  <2>3. buyStep = [i \in DOMAIN p.asks |-> buyStep[i]]
    OBVIOUS
  <2> HIDE DEF buyStep
  <2> QED BY <1>2, <2>1, <2>2, <2>3, WalkIs
<1>6. sold.left \in Int /\ sold.other \in Int
  <2>1. \A i \in DOMAIN p.bids : sellStep[i] \in [Walks -> Walks]
    <3> SUFFICES ASSUME NEW i \in DOMAIN p.bids, NEW w \in Walks
                 PROVE  sellStep[i][w] \in Walks
      <4>1. \A i \in DOMAIN p.bids : sellStep[i] = [v \in Walks |-> sellStep[i][v]]
        OBVIOUS
      <4> HIDE DEF sellStep
      <4> QED BY <4>1
    <3> DEFINE a == D * p.bids[i].quantity
               take == Min({w.left, a})
    <3>1. w.left \in Int /\ w.other \in Int /\ p.bids[i].price \in Nat /\ p.bids[i].quantity \in Nat
      BY <1>3 DEF Walks
    <3>2. a \in Int
      BY <1>2, <3>1
    <3> HIDE DEF a
    <3>3. take \in Int
      BY <3>1, <3>2, TwoType
    <3>4. sellStep[i][w] = [left |-> w.left - take, other |-> w.other + take * p.bids[i].price]
      BY DEF a
    <3> HIDE DEF take
    <3>5. take * p.bids[i].price \in Int
      BY <3>1, <3>3
    <3> HIDE DEF buyStep, sellStep
    <3> QED BY <3>1, <3>3, <3>4, <3>5 DEF Walks
  <2>2. [left |-> wanted, other |-> 0] \in Walks
    BY <1>4 DEF Walks
  <2>3. sellStep = [i \in DOMAIN p.bids |-> sellStep[i]]
    OBVIOUS
  <2> HIDE DEF sellStep
  <2> QED BY <1>2, <2>1, <2>2, <2>3, WalkIs
<1> HIDE DEF bought, sold
<1>7. buyImpact \in Int
  <2>1. Max({1, bought.other}) \in Nat \ {0}
    <3>1. Max({1, bought.other}) = IF 1 >= bought.other THEN 1 ELSE bought.other
      BY <1>5, OfTwo
    <3> QED BY <1>5, <3>1
  <2> DEFINE other == Max({1, bought.other})
  <2>2. other * Ask(p) \in Nat \ {0} /\ D * D * notional \in Int
    <3>1. other \in Nat \ {0} /\ Ask(p) \in Nat \ {0}
      BY <1>3, <2>1
    <3>2. other * Ask(p) \in Nat \ {0}
      <4> HIDE DEF other
      <4>1. \A x, y \in Nat \ {0} : x * y \in Nat \ {0}
        OBVIOUS
      <4> QED BY ONLY <3>1, <4>1
    <3> QED BY <1>2, <3>2
  <2>3. (D * D * notional) \div (Max({1, bought.other}) * Ask(p)) \in Int
    BY <2>2, DivisionType
  <2>4. (D * Last(p.asks).price) \div Ask(p) \in Int
    BY <1>2, <1>3
  <2> QED BY <1>2, <2>3, <2>4
<1>8. sellImpact \in Int
  <2>1. wanted * Bid(p) \in Nat \ {0} /\ D * sold.other \in Int
    <3>1. \A x, y \in Nat \ {0} : x * y \in Nat \ {0}
      OBVIOUS
    <3>2. wanted * Bid(p) \in Nat \ {0}
      BY ONLY <1>3, <1>4, <3>1
    <3> QED BY <1>2, <1>6, <3>2
  <2>2. (D * sold.other) \div (wanted * Bid(p)) \in Int
    BY <2>1, DivisionType
  <2>3. (D * Last(p.bids).price) \div Bid(p) \in Int
    BY <1>2, <1>3
  <2> QED BY <1>2, <2>2, <2>3
<1> HIDE DEF buyImpact, sellImpact
<1>9. Max({buyImpact, 0}) \in Nat /\ Max({sellImpact, 0}) \in Nat
  <2>1. /\ Max({buyImpact, 0}) = IF buyImpact >= 0 THEN buyImpact ELSE 0
        /\ Max({sellImpact, 0}) = IF sellImpact >= 0 THEN sellImpact ELSE 0
    BY <1>7, <1>8, OfTwo
  <2> QED BY <1>7, <1>8, <2>1
<1> QED BY <1>1, <1>9 DEF notional

\* What the replays read of a candidate of the scan, and of a profile of the
\* report of the market.
ScanPair(c) ==
  /\ c.symbol \in Symbols
  /\ c.half \in Nat
  /\ c.fee.taker \in Nat
  /\ c.step \in Nat \ {0}

\* What the replays read of a pair of a market report.
ReportPair(p) ==
  /\ p.symbol \in Symbols
  /\ p.half \in Nat /\ p.fee \in Nat /\ p.slip \in Nat
  /\ p.cost \in CostsShown

\* Half of the spread of a book that is not crossed.
LEMMA HalfIs ==
  ASSUME NEW p, IsPair(p)
  PROVE  HalfSpread(Bid(p), Ask(p)) \in Nat
<1>1. /\ p.asks \in Seq(Levels) /\ p.asks # <<>> /\ p.bids \in Seq(Levels) /\ p.bids # <<>>
      /\ Bid(p) <= Ask(p)
  BY DEF IsPair
<1>2. PICK a \in Nat \ {0}, b \in Nat \ {0} : a = Ask(p) /\ b = Bid(p)
  BY <1>1, LevelIs DEF Ask, Bid
<1>3. a - b \in Nat /\ a + b \in Nat \ {0} /\ D \in Nat
  <2>1. D \in Nat
    BY SpotAssumption
  <2>2. b <= a
    BY <1>1, <1>2
  <2> QED BY <2>1, <2>2
<1>4. D * (a - b) \in Nat
  BY <1>3
<1>5. \A x \in Nat, k \in Nat \ {0} : x \div k \in Nat
  OBVIOUS
<1>6. (D * (a - b)) \div (a + b) \in Nat
  BY ONLY <1>3, <1>4, <1>5
<1> QED BY <1>2, <1>6 DEF HalfSpread

\* The candidates of a scan.
LEMMA CandidatesAre ==
  ASSUME NEW v \in Views, NEW c \in Range(UniverseScan(v))
  PROVE  ScanPair(c)
<1>1. IsView(v)
  BY ReplayAssumption
<1>2. PICK p \in Range(v.pairs) : c = Candidate(v, p)
  <2>1. PICK C : C = {Candidate(v, p) : p \in Range(v.pairs)}
    OBVIOUS
  <2>2. UniverseScan(v) \in Seq(C)
    BY <2>1, ScanIs
  <2>3. c \in C
    BY <2>2, RangeInside
  <2> QED BY <2>1, <2>3
<1>3. IsPair(p)
  BY <1>1 DEF IsView
<1>4. /\ c.symbol = p.symbol /\ c.half = HalfSpread(Bid(p), Ask(p)) /\ c.step = p.step
      /\ c.fee = FeeOf(v, p)
  BY <1>2 DEF Candidate
<1>5. FeeOf(v, p).taker \in Nat
  <2>1. p.taker \in Nat /\ Limits.fallback \in Nat /\ (v.account # None => v.account \in Nat)
    BY <1>1, <1>3, SpotAssumption DEF IsPair, IsView
  <2> QED BY <2>1 DEF FeeOf
<1> QED BY <1>3, <1>4, <1>5, HalfIs DEF ScanPair, IsPair

\* A pair that the exchange shows.
LEMMA PairOfIs ==
  ASSUME NEW v \in Views, NEW s, PairOf(v, s) # None
  PROVE  IsPair(PairOf(v, s))
<1> DEFINE S == {p \in Range(v.pairs) : p.symbol = s}
           found == Only(v.pairs, S)
<1>1. v.pairs \in Seq(Range(v.pairs)) /\ \A p \in Range(v.pairs) : IsPair(p)
  BY ReplayAssumption DEF IsView
<1>2. PairOf(v, s) = IF found = <<>> THEN None ELSE Head(found)
  BY DEF PairOf
<1>3. \A p \in S : IsPair(p)
  BY <1>1
<1> HIDE DEF S
<1>4. found \in Seq(S)
  BY <1>1, OnlyType
<1> HIDE DEF found
<1>5. found # <<>> => Head(found) \in S
  BY <1>4
<1> QED BY <1>2, <1>3, <1>5

\* The profile of a candidate.
LEMMA ProfileIs ==
  ASSUME NEW v \in Views, NEW c, ScanPair(c), PairOf(v, c.symbol) # None
  PROVE  LET p == Profile(v, c)
         IN  p.symbol \in Symbols /\ p.half \in Nat /\ p.fee \in Nat /\ p.slip \in Nat
<1> DEFINE p == PairOf(v, c.symbol)
           spreads == Append(p.spreads, HalfSpread(Bid(p), Ask(p)))
           impact == BookSlippage(p, Limits.notional).impact
<1>1. IsPair(p)
  BY PairOfIs
<1>2. /\ Profile(v, c).symbol = c.symbol
      /\ Profile(v, c).half = Median2(spreads) \div 2
      /\ Profile(v, c).fee = c.fee.taker
      /\ Profile(v, c).slip = (impact + 1) \div 2
  BY DEF Profile
<1> HIDE DEF p
<1>3. impact \in Nat
  BY <1>1, ImpactIs
<1>4. \E a, b \in Nat : Median2(spreads) = a + b
  <2>1. p.spreads \in Seq(Nat)
    BY <1>1 DEF IsPair
  <2>2. HalfSpread(Bid(p), Ask(p)) \in Nat
    BY <1>1, HalfIs
  <2>3. spreads \in Seq(Nat) /\ Len(spreads) >= 1
    BY <2>1, <2>2, AppendProperties
  <2> HIDE DEF spreads
  <2> QED BY <2>3, MedianIs
<1> HIDE DEF spreads, impact
<1>5. \A n \in Nat : n \div 2 \in Nat
  OBVIOUS
<1>6. Median2(spreads) \in Nat /\ impact + 1 \in Nat
  BY <1>3, <1>4
<1>7. Median2(spreads) \div 2 \in Nat /\ (impact + 1) \div 2 \in Nat
  BY <1>5, <1>6
<1> QED BY <1>2, <1>7 DEF ScanPair

\* The reports of the market that the exchange may give.
LEMMA ReportsAre ==
  ASSUME NEW r \in AllReports
  PROVE  Listed(r) /\ \A p \in Range(r) : ReportPair(p)
<1>1. PICK v \in Views, u \in Views : r = MarketReport(v, UniverseScan(u))
  BY DEF AllReports
<1>2. Listed(UniverseScan(u))
  BY ScanIsListed
<1>3. Listed(r)
  BY <1>1, <1>2, MarketReportIs
<1>4. ASSUME NEW p \in Range(r) PROVE ReportPair(p)
  <2> DEFINE shown == {x \in Range(UniverseScan(u)) : PairOf(v, x.symbol) # None}
             P == {Profile(v, x) : x \in shown}
  <2>1. r \in Seq(P)
    BY <1>1, <1>2, ReportIs
  <2>2. p \in P
    <3> HIDE DEF P
    <3> QED BY <2>1, RangeInside
  <2>3. PICK x \in shown : p = Profile(v, x)
    BY <2>2
  <2>4. ScanPair(x) /\ PairOf(v, x.symbol) # None
    BY <2>3, CandidatesAre
  <2>5. p.symbol \in Symbols /\ p.half \in Nat /\ p.fee \in Nat /\ p.slip \in Nat
    BY <2>3, <2>4, ProfileIs
  <2>6. p.cost \in CostsShown
    <3>1. PICK i \in DOMAIN r : p = r[i]
      BY DEF Range
    <3>2. p.cost \in Range(Field(r, LAMBDA q : q.cost))
      BY <3>1 DEF Range, Field
    <3> QED BY <3>2 DEF CostsShown
  <2> QED BY <2>5, <2>6 DEF ReportPair
<1> QED BY <1>3, <1>4

\* The costs of a trade in a scenario are no gains.
CostsAre(c) == c.fee \in Nat /\ c.half \in Nat /\ c.slip \in Nat

\* A stressed cost is no gain either.
LEMMA ScenarioIs ==
  ASSUME NEW c, CostsAre(c), NEW stress
  PROVE  CostsAre(Scenario(c, stress))
<1>1. CASE stress
  <2>1. /\ Scenario(c, stress).fee = (3 * c.fee) \div 2 /\ Scenario(c, stress).half = 2 * c.half
        /\ Scenario(c, stress).slip = 3 * c.slip
    BY <1>1 DEF Scenario
  <2>2. \A n \in Nat : n \div 2 \in Nat
    OBVIOUS
  <2>3. 3 * c.fee \in Nat /\ 2 * c.half \in Nat /\ 3 * c.slip \in Nat
    BY DEF CostsAre
  <2>4. (3 * c.fee) \div 2 \in Nat
    BY <2>2, <2>3
  <2> QED BY <2>1, <2>3, <2>4 DEF CostsAre
<1>2. CASE ~stress
  BY <1>2 DEF Scenario
<1> QED BY <1>1, <1>2

\* What a round trip leaves is what the market gave less the costs of its sides.
LEMMA RoundTripIdentity ==
  ASSUME NEW q \in Int, NEW e \in Int, NEW x \in Int, NEW h \in Int, NEW s \in Int, NEW d \in Int
  PROVE  q * (x * (d - h) * (d - s) - e * (d + h) * (d + s)) * d =
           q * (x - e) * d * d * d - q * (e + x) * h * d * d - q * (e * (d + h) + x * (d - h)) * s * d
OBVIOUS

\* A round trip of whole numbers leaves what the market gave less its four costs.
LEMMA TradeAddsUp ==
  ASSUME NEW q \in Int, NEW e \in Int, NEW x \in Int, NEW c, CostsAre(c)
  PROVE  LET made == TradeOf(q, e, x, c)
         IN  /\ made.market \in Int /\ made.spread \in Int /\ made.slippage \in Int
             /\ made.commission \in Int /\ made.net \in Int
             /\ made.net = made.market - made.spread - made.slippage - made.commission
<1> DEFINE made == TradeOf(q, e, x, c)
<1>1. PICK f \in Int, h \in Int, s \in Int, d \in Int : f = c.fee /\ h = c.half /\ s = c.slip /\ d = D
  BY SpotAssumption DEF CostsAre
<1>2. PICK b \in Int, r \in Int : b = e * (d + h) * (d + s) /\ r = x * (d - h) * (d - s)
  OBVIOUS
<1>3. Bought(e, c) = b /\ Sold(x, c) = r
  BY <1>1, <1>2 DEF Bought, Sold
<1>4. /\ made.market = q * (x - e) * d * d * d
      /\ made.spread = q * (e + x) * h * d * d
      /\ made.slippage = q * (e * (d + h) + x * (d - h)) * s * d
      /\ made.commission = q * f * (b + r)
      /\ made.net = q * (r - b) * d - q * f * (b + r)
  BY <1>1, <1>3 DEF TradeOf
<1> HIDE DEF made
<1>5. PICK m \in Int, p \in Int, l \in Int, k \in Int, n \in Int :
        /\ m = q * (x - e) * d * d * d /\ p = q * (e + x) * h * d * d
        /\ l = q * (e * (d + h) + x * (d - h)) * s * d
        /\ k = q * f * (b + r) /\ n = q * (r - b) * d
  OBVIOUS
<1>6. n = m - p - l
  BY <1>2, <1>5, RoundTripIdentity
<1>7. made.market = m /\ made.spread = p /\ made.slippage = l /\ made.commission = k /\ made.net = n - k
  BY <1>4, <1>5
<1>8. n - k = m - p - l - k
  BY <1>6
<1> QED BY <1>7, <1>8 DEF made

\* The size of a position: its estimated loss fits the budget.
LEMMA SizeIs ==
  ASSUME NEW equity \in Int, NEW bought \in Int, NEW stop \in Int, NEW outlay \in Int, NEW rate \in Int,
         NEW rules, rules.step \in Nat \ {0}, rules.maximum \in Nat
  PROVE  LET q == SizeOf(equity, bought, stop, outlay, rate, rules)
         IN  /\ q \in Nat
             /\ q # 0 =>
                  /\ equity > 0 /\ stop > 0 /\ stop * D * D < bought
                  /\ q * ((bought - stop * D * D) * D + bought * rate) <= equity \div RiskFraction
<1> DEFINE loss == (bought - stop * D * D) * D + bought * rate
           budget == equity \div RiskFraction
           fits == {q \in 0 .. rules.maximum :
                      q % rules.step = 0 /\ q * loss <= budget /\ q * outlay <= equity}
           refused == equity <= 0 \/ stop <= 0 \/ stop * D * D >= bought
           small == \/ Max(fits) < rules.minimum
                    \/ Max(fits) * bought < rules.notional * D * D
           q == SizeOf(equity, bought, stop, outlay, rate, rules)
<1>1. q = IF refused \/ small THEN 0 ELSE Max(fits)
  BY DEF SizeOf
<1>2. D \in Nat \ {0} /\ RiskFraction \in Nat \ {0}
  BY SpotAssumption
<1>3. loss \in Int /\ budget \in Int
  BY <1>2
<1>4. equity > 0 => budget >= 0
  BY <1>2
<1> HIDE DEF loss, budget, small, q
<1>5. ASSUME ~refused PROVE Max(fits) \in fits
  <2>1. 0 \in fits
    <3>1. 0 * loss = 0 /\ 0 * outlay = 0 /\ 0 % rules.step = 0
      BY <1>3
    <3>2. equity > 0
      BY <1>5
    <3> QED BY <1>4, <3>1, <3>2
  <2>2. fits \in SUBSET (0 .. rules.maximum)
    OBVIOUS
  <2> HIDE DEF fits
  <2> QED BY <2>1, <2>2, LargestBelow
<1>6. ASSUME q # 0 PROVE ~refused /\ q \in fits
  <2> HIDE DEF fits, refused
  <2> QED BY <1>1, <1>5, <1>6
<1>7. stop * D * D \in Int
  BY <1>2
<1>8. ~refused => equity > 0 /\ stop > 0 /\ stop * D * D < bought
  BY <1>7
<1>9. q \in Nat /\ (q # 0 => q * loss <= budget)
  BY <1>6
<1> QED BY <1>6, <1>8, <1>9 DEF loss, budget, q

\* A number that is no larger, times a number that is not negative.
LEMMA Scaled ==
  ASSUME NEW a \in Int, NEW b \in Int, NEW k \in Nat, a <= b
  PROVE  a * k <= b * k /\ k * a <= k * b
<1>1. (b - a) * k \in Nat
  OBVIOUS
<1>2. (b - a) * k = b * k - a * k /\ k * a = a * k /\ k * b = b * k
  OBVIOUS
<1> QED BY <1>1, <1>2

\* What a position loses at a stop below its entry, costs included, is not more
\* than the loss by which it was sized.
LEMMA StopLoses ==
  ASSUME NEW q \in Nat, NEW e \in Int, NEW x \in Int, NEW c, CostsAre(c), NEW budget \in Int,
         x > 0, x <= e, x * D * D < Bought(e, c),
         q * ((Bought(e, c) - x * D * D) * D + Bought(e, c) * (2 * (c.fee + c.slip + c.half))) <= budget
  PROVE  -TradeOf(q, e, x, c).net <= budget
<1>1. PICK f \in Nat, h \in Nat, s \in Nat, d \in Nat : f = c.fee /\ h = c.half /\ s = c.slip /\ d = D
  BY SpotAssumption DEF CostsAre
<1>2. PICK b \in Int, r \in Int, a \in Int :
        b = e * (d + h) * (d + s) /\ r = x * (d - h) * (d - s) /\ a = x * d * d
  OBVIOUS
<1>3. Bought(e, c) = b /\ Sold(x, c) = r
  BY <1>1, <1>2 DEF Bought, Sold
<1>4. TradeOf(q, e, x, c).net = q * (r - b) * d - q * f * (b + r)
  BY <1>1, <1>3 DEF TradeOf
<1>5. a < b /\ q * ((b - a) * d + b * (2 * (f + s + h))) <= budget
  BY <1>1, <1>2, <1>3
<1>6. r <= b
  <2>1. PICK u \in Int, v \in Int : u = (d - h) * (d - s) /\ v = (d + h) * (d + s)
    OBVIOUS
  <2>2. v - u = 2 * (d * (h + s)) /\ d * (h + s) \in Nat /\ v \in Nat
    BY <2>1
  <2>3. u <= v
    BY <2>2
  <2>4. x \in Nat /\ r = x * u /\ b = e * v
    BY <1>2, <2>1
  <2>5. x * u <= x * v
    BY <2>3, <2>4, Scaled
  <2>6. x * v <= e * v
    BY <2>2, Scaled
  <2>7. x * u \in Int /\ x * v \in Int /\ e * v \in Int
    OBVIOUS
  <2> QED BY <2>4, <2>5, <2>6, <2>7
<1>7. (a - r) * d <= b * (h + s)
  <2>1. a - r = x * d * (h + s) - x * (h * s)
    BY <1>2
  <2>2. x * (h * s) \in Nat
    <3>1. x \in Nat /\ h * s \in Nat
      OBVIOUS
    <3> QED BY <3>1
  <2>3. a - r <= x * d * (h + s)
    <3>1. x * d * (h + s) \in Int
      OBVIOUS
    <3> QED BY <2>1, <2>2, <3>1
  <2>4. a - r \in Int /\ x * d * (h + s) \in Int
    OBVIOUS
  <2>5. (a - r) * d <= (x * d * (h + s)) * d
    BY <2>3, <2>4, Scaled
  <2>6. (x * d * (h + s)) * d = a * (h + s)
    BY <1>2
  <2>7. a * (h + s) <= b * (h + s)
    BY <1>5, h + s \in Nat, Scaled
  <2>8. (a - r) * d \in Int /\ a * (h + s) \in Int /\ b * (h + s) \in Int
    OBVIOUS
  <2> QED BY <2>5, <2>6, <2>7, <2>8
<1>8. b \in Nat /\ b * (h + s) \in Nat
  <2>1. a \in Nat
    <3>1. x \in Nat /\ d * d \in Nat
      OBVIOUS
    <3>2. x * (d * d) \in Nat /\ a = x * (d * d)
      BY <1>2, <3>1
    <3> QED BY <3>2
  <2>2. b \in Nat
    BY <1>5, <2>1
  <2> QED BY <2>2
<1>9. f * (b + r) <= f * (2 * b)
  BY <1>6, b + r \in Int, 2 * b \in Int, b + r <= 2 * b, Scaled
<1>10. (b - r) * d + f * (b + r) <= (b - a) * d + b * (2 * (f + s + h))
  <2>1. (b - r) * d = (b - a) * d + (a - r) * d
    OBVIOUS
  <2>2. b * (2 * (f + s + h)) = f * (2 * b) + b * (h + s) + b * (h + s)
    OBVIOUS
  <2>3. /\ (b - a) * d \in Int /\ (a - r) * d \in Int /\ f * (b + r) \in Int /\ f * (2 * b) \in Int
        /\ b * (h + s) \in Int
    OBVIOUS
  <2> QED BY <1>7, <1>8, <1>9, <2>1, <2>2, <2>3
<1>11. PICK y \in Int, z \in Int :
         y = (b - r) * d + f * (b + r) /\ z = (b - a) * d + b * (2 * (f + s + h))
  OBVIOUS
<1>12. q * y <= q * z
  BY <1>10, <1>11, Scaled
<1>13. -(q * (r - b) * d - q * f * (b + r)) = q * y
  BY <1>11
<1>14. q * y \in Int /\ q * z \in Int /\ q * z <= budget
  BY <1>5, <1>11
<1> QED BY <1>4, <1>12, <1>13, <1>14

\* The symbols of some pairs.
LEMMA SymbolsAre ==
  ASSUME NEW pairs, Listed(pairs)
  PROVE  /\ SymbolsOf(pairs) \in Seq(Range(SymbolsOf(pairs)))
         /\ \A s \in Range(SymbolsOf(pairs)) : \E p \in Range(pairs) : p.symbol = s
         /\ \A p \in Range(pairs) : p.symbol \in Range(SymbolsOf(pairs))
<1> DEFINE S == {p.symbol : p \in Range(pairs)}
<1>1. SymbolsOf(pairs) = [i \in DOMAIN pairs |-> pairs[i].symbol]
  BY DEF SymbolsOf, Field
<1>2. \A i \in DOMAIN pairs : pairs[i] \in Range(pairs)
  BY DEF Range
<1>3. DOMAIN pairs = 1 .. Len(pairs) /\ Len(pairs) \in Nat
  BY DEF Listed
<1>4. SymbolsOf(pairs) \in Seq(S)
  <2>1. \A i \in DOMAIN pairs : pairs[i].symbol \in S
    BY <1>2
  <2> HIDE DEF S
  <2> QED BY <1>1, <1>3, <2>1
<1>5. SymbolsOf(pairs) \in Seq(Range(SymbolsOf(pairs))) /\ Range(SymbolsOf(pairs)) \subseteq S
  <2> HIDE DEF S
  <2> QED BY <1>4, RangeInside
<1>6. ASSUME NEW p \in Range(pairs) PROVE p.symbol \in Range(SymbolsOf(pairs))
  <2>1. PICK i \in DOMAIN pairs : p = pairs[i]
    BY DEF Range
  <2> QED BY <1>1, <2>1 DEF Range
<1> QED BY <1>5, <1>6

\* What the histories give: bars, signals with whole prices, and rankings of
\* members of the universe.
LEMMA GivenHas ==
  ASSUME given = Given, NEW w \in DOMAIN Markets
  PROVE  /\ \A s \in Symbols : \A t \in Times :
              given[w].bars[s][t] = BarAt(AggregateBars(Markets[w][s], Minutes.m5), t)
         /\ \A s \in Symbols : given[w].v1[s] = GenerateV1(Markets[w][s])
         /\ \A s \in Symbols : \A c \in CostsShown :
              given[w].v2[s][c] = GenerateV2(Markets[w][s], (10000 * c) \div D)
         /\ \A u \in Universes(w) :
              given[w].sections[u] =
                CrossSections(u, [s \in Range(u) |->
                  [z \in Symbols |-> Features(z, AggregateBars(Markets[w][z], Minutes.m5))][s]])
<1> DEFINE m5 == [s \in Symbols |-> AggregateBars(Markets[w][s], Minutes.m5)]
           features == [s \in Symbols |-> Features(s, m5[s])]
<1>1. given[w] = GivenBy(w, m5)
  BY DEF Given
<1>2. \A s \in Symbols : m5[s] = AggregateBars(Markets[w][s], Minutes.m5)
  OBVIOUS
<1>3. features = [z \in Symbols |-> Features(z, AggregateBars(Markets[w][z], Minutes.m5))]
  OBVIOUS
<1> HIDE DEF m5
<1>4. /\ GivenBy(w, m5).bars = [s \in Symbols |-> [t \in Times |-> BarAt(m5[s], t)]]
      /\ GivenBy(w, m5).v1 = [s \in Symbols |-> GenerateV1(Markets[w][s])]
      /\ GivenBy(w, m5).v2 = [s \in Symbols |-> [c \in CostsShown |->
                                GenerateV2(Markets[w][s], (10000 * c) \div D)]]
      /\ GivenBy(w, m5).sections =
           [u \in Universes(w) |-> CrossSections(u, [s \in Range(u) |-> features[s]])]
  BY DEF GivenBy
<1> HIDE DEF features
<1>5. \A s \in Symbols : \A t \in Times :
        given[w].bars[s][t] = BarAt(AggregateBars(Markets[w][s], Minutes.m5), t)
  BY <1>1, <1>2, <1>4
<1>6. \A s \in Symbols : given[w].v1[s] = GenerateV1(Markets[w][s])
  BY <1>1, <1>4
<1>7. \A s \in Symbols : \A c \in CostsShown :
        given[w].v2[s][c] = GenerateV2(Markets[w][s], (10000 * c) \div D)
  BY <1>1, <1>4
<1>8. \A u \in Universes(w) :
        given[w].sections[u] = CrossSections(u, [s \in Range(u) |-> features[s]])
  BY <1>1, <1>4
<1> QED BY <1>3, <1>5, <1>6, <1>7, <1>8

\* The bars of a symbol, and its bars of five minutes.
LEMMA HistoriesAre ==
  ASSUME NEW w \in DOMAIN Markets, NEW s \in Symbols
  PROVE  Markets[w][s] \in Seq(Bars) /\ AggregateBars(Markets[w][s], Minutes.m5) \in Seq(Bars)
<1>1. Markets[w][s] \in Seq(Bars)
  BY ReplayAssumption
<1> QED BY <1>1, StrategyIs, AggregateIs

\* A bar that a replay reads.
LEMMA GivenBars ==
  ASSUME given = Given, NEW w \in DOMAIN Markets, NEW s \in Symbols, NEW t \in Times,
         given[w].bars[s][t] # None
  PROVE  given[w].bars[s][t] \in Bars
BY GivenHas, HistoriesAre, BarAtIs

\* The signals that a replay of V1 or of V2 reads.
LEMMA GivenSignals ==
  ASSUME given = Given, NEW w \in DOMAIN Markets, NEW s \in Symbols
  PROVE  /\ \A x \in given[w].v1[s] : SignalIs(x)
         /\ \A c \in CostsShown : \A x \in given[w].v2[s][c] : SignalIs(x)
<1>1. Markets[w][s] \in Seq(Bars)
  BY HistoriesAre
<1>2. given[w].v1[s] = GenerateV1(Markets[w][s])
  BY GivenHas
<1>3. \A c \in CostsShown : given[w].v2[s][c] = GenerateV2(Markets[w][s], (10000 * c) \div D)
  BY GivenHas
<1> QED BY <1>1, <1>2, <1>3, GenerateV1Is, GenerateV2Is

\* The universes of V3 are made of symbols that the exchange shows.
LEMMA UniversesAre ==
  ASSUME NEW w, NEW u \in Universes(w)
  PROVE  u \in Seq(Range(u)) /\ Range(u) \subseteq Symbols
<1>1. PICK r \in AllReports, history \in SUBSET Symbols :
        u = SymbolsOf(Eligible(w, DynamicUniverse(r), history))
  BY DEF Universes
<1> DEFINE pairs == Eligible(w, DynamicUniverse(r), history)
<1>2. Listed(r) /\ \A p \in Range(r) : ReportPair(p)
  BY ReportsAre
<1>3. Listed(pairs) /\ Range(pairs) \subseteq Range(r)
  BY <1>2, DynamicIs, EligibleIs
<1> HIDE DEF pairs
<1>4. u = SymbolsOf(pairs)
  BY <1>1 DEF pairs
<1> QED BY <1>2, <1>3, <1>4, SymbolsAre DEF ReportPair

\* The ranking that a replay of V3 reads.
LEMMA GivenSections ==
  ASSUME given = Given, NEW w \in DOMAIN Markets, NEW u \in Universes(w),
         NEW t \in DOMAIN given[w].sections[u]
  PROVE  RankedIs(given[w].sections[u][t].ranked, Range(u))
<1> DEFINE all == [z \in Symbols |-> Features(z, AggregateBars(Markets[w][z], Minutes.m5))]
           features == [s \in Range(u) |-> all[s]]
<1>1. given[w].sections[u] = CrossSections(u, features)
  BY GivenHas
<1>2. u \in Seq(Range(u)) /\ Range(u) \subseteq Symbols
  BY UniversesAre
<1>3. \A s \in Symbols : all[s] = Features(s, AggregateBars(Markets[w][s], Minutes.m5))
  OBVIOUS
<1> HIDE DEF all
<1>4. \A s \in Symbols : \A z \in DOMAIN all[s] : FeatureIs(all[s][z], {s})
  BY <1>3, HistoriesAre, FeaturesAre
<1>6. /\ DOMAIN features = Range(u)
      /\ \A s \in Range(u) : \A z \in DOMAIN features[s] : FeatureIs(features[s][z], {s})
  BY <1>2, <1>4
<1> HIDE DEF features
<1> QED BY <1>1, <1>2, <1>6, SectionsAre

-----------------------------------------------------------------------------
(***************************************************************************)
(* Where the numbers of a replay come from.  The files hold scans and      *)
(* reports of what the exchange may show; a command holds pairs of them,   *)
(* plans that are left to replay and, when it replays, the steps of its    *)
(* quantities.                                                             *)
(***************************************************************************)
Scanned == \E u \in Views : disk.check.candidates = UniverseScan(u)

\* The files come from what the exchange may show.
FilesSourced ==
  /\ given = Given
  /\ market \in DOMAIN Markets
  /\ disk.history \in SUBSET Symbols
  /\ disk.check # None => Scanned
  /\ disk.market.state = "whole" => Scanned /\ disk.market.pairs \in AllReports
  /\ disk.v1.state = "whole" => \A c \in Range(disk.v1.pairs) : ScanPair(c)
  /\ disk.v3.state = "whole" => \E r \in AllReports : disk.v3.pairs = DynamicUniverse(r)

\* The pairs of a command come from a scan or from a report.
PairsSourced ==
  /\ run.protocol = "V1" => run.fee \in Nat /\ \A p \in Range(run.pairs) : ScanPair(p)
  /\ run.protocol # "V1" => \A p \in Range(run.pairs) : ReportPair(p)
  /\ run.protocol = "V3" => Scanned
  /\ run.protocol = "V3" /\ pc \in Early => \E r \in AllReports : run.pairs = DynamicUniverse(r)
  /\ run.protocol = "V3" /\ pc \in Late => SymbolsOf(run.pairs) \in Universes(market)

\* The configurations that are left to replay.
PlansLeft ==
  /\ run.left \in Seq(Range(Plans[run.protocol]))
  /\ pc # "deliver" => run.left # <<>>

\* The step of the quantities of a symbol that is replayed.
StepsKnown ==
  \A s \in Range(SymbolsOf(run.pairs)) :
    IF run.protocol = "V3" THEN run.rules[s].step \in Nat \ {0} ELSE PairOf(live, s) # None

\* The inductive invariant of the sources of the numbers.
SourcesKept ==
  /\ FilesSourced
  /\ pc # "idle" => PairsSourced /\ PlansLeft
  /\ pc \in Late => StepsKnown

\* The plans of a protocol.
LEMMA PlansAre ==
  ASSUME NEW p \in Protocols
  PROVE  /\ Plans[p] \in Seq(Range(Plans[p])) /\ Plans[p] # <<>>
         /\ \A c \in Range(Plans[p]) : c.capital \in Int /\ c.leaders \in Nat
BY ReplayAssumption DEF Protocols

\* The pairs of V3 are of a report.
LEMMA DynamicPairs ==
  ASSUME NEW r \in AllReports
  PROVE  /\ Listed(DynamicUniverse(r))
         /\ \A p \in Range(DynamicUniverse(r)) : ReportPair(p)
BY ReportsAre, DynamicIs

\* What does not touch the files leaves their sources.
LEMMA FilesStay ==
  ASSUME FilesSourced, UNCHANGED <<disk, given, market>>
  PROVE  FilesSourced'
BY DEF FilesSourced, Scanned

\* A command starts with pairs that it knows and every plan of its protocol.
LEMMA StartSourced ==
  ASSUME SourcesKept, NEW point \in Early, NEW p \in Protocols, NEW pairs, NEW collect, NEW fee,
         Launch(point, Started(p, pairs, collect, fee)),
         p = "V1" => fee \in Nat /\ \A x \in Range(pairs) : ScanPair(x),
         p # "V1" => \A x \in Range(pairs) : ReportPair(x),
         p = "V3" => Scanned /\ \E r \in AllReports : pairs = DynamicUniverse(r)
  PROVE  SourcesKept'
<1>1. /\ pc' = point /\ UNCHANGED <<disk, live, market, given>>
      /\ run'.protocol = p /\ run'.pairs = pairs /\ run'.fee = fee /\ run'.left = Plans[p]
  BY DEF Launch, Started
<1>2. FilesSourced'
  BY <1>1, FilesStay DEF SourcesKept
<1>3. point \notin Late
  BY DEF Early, Late
<1>4. PlansLeft'
  BY <1>1, PlansAre DEF PlansLeft
<1>5. PairsSourced'
  BY <1>1, <1>3 DEF PairsSourced, Scanned
<1> QED BY <1>1, <1>2, <1>3, <1>4, <1>5 DEF SourcesKept

\* A command that starts.
LEMMA StartsSourced ==
  ASSUME SourcesKept, FrozenKept, LedgerKept, StartV1 \/ StartV2 \/ StartV3
  PROVE  SourcesKept'
<1>0. FilesSourced /\ live \in Views /\ DiskKept
  BY DEF SourcesKept, FrozenKept
<1>1. CASE StartV1
  <2> DEFINE selected == Frozen(disk.v1, Qualified(UniverseScan(live)))
             fee == CHOOSE f \in TakerFees : TRUE
  <2>1. PICK collect \in BOOLEAN :
          /\ disk.check # None /\ Cardinality(TakerFees) = 1 /\ disk.v1.state # "torn"
          /\ Launch(CASE collect -> "freeze"
                      [] ~collect /\ disk.v1.state = "absent" -> "recover"
                      [] OTHER -> "prepare", Started("V1", selected, collect, fee))
    BY <1>1 DEF StartV1
  <2>2. fee \in Nat
    <3>1. TakerFees # {}
      BY <2>1, FS_EmptySet
    <3>2. TakerFees \subseteq Nat
      BY <1>0, <2>1, CandidatesAre DEF TakerFees, FilesSourced, Scanned, ScanPair
    <3> HIDE DEF fee
    <3>3. fee \in TakerFees
      BY <3>1 DEF fee
    <3> QED BY <3>2, <3>3
  <2>3. \A x \in Range(selected) : ScanPair(x)
    <3>1. CASE disk.v1.state = "absent"
      <4>1. selected = Qualified(UniverseScan(live))
        BY <3>1 DEF Frozen
      <4>2. Listed(UniverseScan(live))
        BY <1>0, ScanIsListed
      <4>3. PICK S \in SUBSET Range(UniverseScan(live)) :
              Qualified(UniverseScan(live)) = Only(UniverseScan(live), S)
        BY DEF Qualified
      <4>4. Only(UniverseScan(live), S) \in Seq(S)
        BY <4>2, OnlyType DEF Listed
      <4>5. Range(selected) \subseteq S
        BY <4>1, <4>3, <4>4, RangeInside
      <4> QED BY <1>0, <4>5, CandidatesAre
    <3>2. CASE disk.v1.state = "whole"
      BY <1>0, <3>2 DEF Frozen, FilesSourced
    <3> QED BY <1>0, <2>1, <3>1, <3>2 DEF DiskKept, FileKept
  <2> HIDE DEF selected, fee
  <2>4. PICK point \in Early : Launch(point, Started("V1", selected, collect, fee))
    BY <2>1 DEF Early
  <2> QED BY <2>2, <2>3, <2>4, StartSourced DEF Protocols
<1>2. CASE StartV2
  <2>1. PICK collect \in BOOLEAN :
          \/ /\ disk.market.state = "whole" /\ disk.v2.state = "whole"
             /\ Launch(IF collect THEN "collect" ELSE "prepare",
                       Started("V2", FrozenSelection, collect, 0))
          \/ Launch("market", Started("V2", <<>>, collect, 0))
    BY <1>2 DEF StartV2
  <2>2. CASE Launch("market", Started("V2", <<>>, collect, 0))
    <3>1. Range(<<>>) = {}
      BY DEF Range
    <3> QED BY <2>2, <3>1, StartSourced DEF Protocols, Early
  <2>3. CASE /\ disk.market.state = "whole" /\ disk.v2.state = "whole"
             /\ Launch(IF collect THEN "collect" ELSE "prepare",
                       Started("V2", FrozenSelection, collect, 0))
    <3> DEFINE selected == Selected(disk.market.pairs)
    <3>1. disk.market.pairs \in AllReports
      BY <1>0, <2>3 DEF FilesSourced
    <3>2. /\ Listed(disk.market.pairs) /\ \A x \in Range(disk.market.pairs) : ReportPair(x)
          /\ Listed(selected) /\ Range(selected) \subseteq Range(disk.market.pairs)
      BY <3>1, ReportsAre, SelectedIs
    <3>3. PICK S \in SUBSET Range(selected) : FrozenSelection = Only(selected, S)
      BY DEF FrozenSelection
    <3> HIDE DEF selected
    <3>4. Only(selected, S) \in Seq(S)
      BY <3>2, OnlyType DEF Listed
    <3>5. Range(FrozenSelection) \subseteq S
      BY <3>3, <3>4, RangeInside
    <3>6. PICK point \in Early : Launch(point, Started("V2", FrozenSelection, collect, 0))
      BY <2>3 DEF Early
    <3> QED BY <3>2, <3>5, <3>6, StartSourced DEF Protocols
  <2> QED BY <2>1, <2>2, <2>3
<1>3. CASE StartV3
  <2> DEFINE pairs == Frozen(disk.v3, DynamicUniverse(disk.market.pairs))
  <2>1. PICK collect \in BOOLEAN :
          /\ disk.market.state = "whole" /\ disk.v3.state # "torn"
          /\ Launch(CASE disk.v3.state = "absent" -> "freeze"
                      [] disk.v3.state # "absent" /\ collect -> "collect"
                      [] OTHER -> "prepare", Started("V3", pairs, collect, 0))
    BY <1>3 DEF StartV3
  <2>2. \E r \in AllReports : pairs = DynamicUniverse(r)
    <3>1. CASE disk.v3.state = "absent"
      BY <1>0, <2>1, <3>1 DEF Frozen, FilesSourced
    <3>2. CASE disk.v3.state = "whole"
      BY <1>0, <3>2 DEF Frozen, FilesSourced
    <3> QED BY <1>0, <2>1, <3>1, <3>2 DEF DiskKept, FileKept
  <2> HIDE DEF pairs
  <2>3. (\A x \in Range(pairs) : ReportPair(x)) /\ Scanned
    BY <1>0, <2>1, <2>2, DynamicPairs DEF FilesSourced
  <2>4. PICK point \in Early : Launch(point, Started("V3", pairs, collect, 0))
    BY <2>1 DEF Early
  <2> QED BY <2>2, <2>3, <2>4, StartSourced DEF Protocols
<1> QED BY <1>1, <1>2, <1>3

\* A command that ends, a look at the exchange and a scan.
LEMMA IdleSourced ==
  ASSUME SourcesKept, FrozenKept, LedgerKept,
         \/ Move \/ BinanceCheck \/ Kill \/ DeliverV1 \/ DeliverV2 \/ DeliverV3 \/ UNCHANGED replayVars
  PROVE  SourcesKept'
<1>0. FilesSourced /\ live \in Views /\ DiskKept
  BY DEF SourcesKept, FrozenKept
<1>1. CASE UNCHANGED replayVars
  <2>1. UNCHANGED <<disk, given, market, pc, run, live>>
    BY <1>1 DEF replayVars
  <2>2. FilesSourced'
    BY <1>0, <2>1, FilesStay
  <2>3. pc' # "idle" => PairsSourced' /\ PlansLeft'
    BY <2>1 DEF SourcesKept, PairsSourced, PlansLeft, Scanned
  <2>4. pc' \in Late => StepsKnown'
    BY <2>1 DEF SourcesKept, StepsKnown
  <2> QED BY <2>2, <2>3, <2>4 DEF SourcesKept
<1>2. CASE Move \/ Kill \/ DeliverV1 \/ DeliverV2 \/ DeliverV3
  <2>1. UNCHANGED <<disk, given, market>> /\ pc' = "idle"
    BY <1>2 DEF Move, Kill, DeliverV1, DeliverV2, DeliverV3, Delivered
  <2>2. FilesSourced'
    BY <1>0, <2>1, FilesStay
  <2> QED BY <2>1, <2>2 DEF SourcesKept, Late
<1>3. CASE BinanceCheck
  <2>1. pc = "idle" /\ pc' = "idle" /\ UNCHANGED <<given, market>>
    BY <1>3 DEF BinanceCheck
  <2>2. PICK authenticated :
          disk' = [disk EXCEPT !.check = [authenticated |-> authenticated,
                                          candidates |-> UniverseScan(live)]]
    BY <1>3 DEF BinanceCheck
  <2>3. /\ disk'.v1 = disk.v1 /\ disk'.v3 = disk.v3 /\ disk'.market = disk.market
        /\ disk'.history = disk.history /\ disk'.check.candidates = UniverseScan(live)
    BY <1>0, <2>2 DEF DiskKept
  <2>4. FilesSourced'
    BY <1>0, <2>1, <2>3 DEF FilesSourced, Scanned
  <2> QED BY <2>1, <2>4 DEF SourcesKept, Late
<1> QED BY <1>1, <1>2, <1>3

\* The report of the market, and what V2 selects of it.
LEMMA MarketSourced ==
  ASSUME SourcesKept, FrozenKept, LedgerKept, WriteMarket
  PROVE  SourcesKept'
<1> DEFINE report == MarketReport(live, disk.check.candidates)
<1>0. FilesSourced /\ live \in Views /\ DiskKept
  BY DEF SourcesKept, FrozenKept
<1>1. /\ pc = "market" /\ disk' = [disk EXCEPT !.market = Whole(report)]
      /\ \/ pc' = "idle"
         \/ pc' = "freeze" /\ run' = [run EXCEPT !.pairs = Selected(report)]
      /\ UNCHANGED <<live, market, given>>
  BY DEF WriteMarket
<1>2. run.protocol = "V2" /\ disk.check # None /\ RunIs(run) /\ PlansLeft
  BY <1>1 DEF FrozenKept, CommandKept, LedgerKept, Early, SourcesKept
<1>3. report \in AllReports
  BY <1>0, <1>2 DEF FilesSourced, Scanned, AllReports
<1> HIDE DEF report
<1>4. /\ Listed(report) /\ (\A x \in Range(report) : ReportPair(x))
      /\ Range(Selected(report)) \subseteq Range(report)
  BY <1>3, ReportsAre, SelectedIs
<1>5. /\ disk'.v1 = disk.v1 /\ disk'.v3 = disk.v3 /\ disk'.market = Whole(report)
      /\ disk'.history = disk.history /\ disk'.check = disk.check
  BY <1>0, <1>1 DEF DiskKept
<1>6. FilesSourced'
  BY <1>0, <1>1, <1>2, <1>3, <1>5 DEF FilesSourced, Scanned, Whole
<1>7. CASE pc' = "idle"
  BY <1>6, <1>7 DEF SourcesKept, Late
<1>8. CASE pc' = "freeze" /\ run' = [run EXCEPT !.pairs = Selected(report)]
  <2>1. run'.pairs = Selected(report) /\ run'.protocol = "V2" /\ run'.left = run.left
    BY <1>2, <1>8 DEF RunIs
  <2>2. PlansLeft'
    BY <1>1, <1>2, <1>8, <2>1 DEF PlansLeft
  <2>3. PairsSourced'
    BY <1>4, <2>1 DEF PairsSourced
  <2> QED BY <1>6, <1>8, <2>2, <2>3 DEF SourcesKept, Late
<1> QED BY <1>1, <1>7, <1>8

\* The pairs of V1 that have a history.
LEMMA RecoverSourced ==
  ASSUME SourcesKept, FrozenKept, LedgerKept, Recover
  PROVE  SourcesKept'
<1>1. /\ pc = "recover" /\ pc' = "freeze" /\ UNCHANGED <<disk, live, market, given>>
      /\ \E S \in SUBSET Range(run.pairs) : run' = [run EXCEPT !.pairs = Only(@, S)]
  BY DEF Recover
<1>2. PICK S \in SUBSET Range(run.pairs) : run' = [run EXCEPT !.pairs = Only(@, S)]
  BY <1>1
<1>3. /\ RunIs(run) /\ Listed(run.pairs) /\ run.protocol = "V1" /\ PairsSourced /\ PlansLeft
      /\ FilesSourced
  BY <1>1 DEF LedgerKept, FrozenKept, CommandKept, SourcesKept, Early
<1>4. /\ run'.pairs = Only(run.pairs, S) /\ run'.protocol = "V1" /\ run'.fee = run.fee
      /\ run'.left = run.left
  BY <1>2, <1>3 DEF RunIs
<1>5. Only(run.pairs, S) \in Seq(S)
  BY <1>3, OnlyType DEF Listed
<1>6. Range(run'.pairs) \subseteq S
  BY <1>4, <1>5, RangeInside
<1>7. PairsSourced'
  BY <1>1, <1>3, <1>4, <1>6 DEF PairsSourced
<1>8. PlansLeft'
  BY <1>1, <1>3, <1>4 DEF PlansLeft
<1>9. FilesSourced'
  BY <1>1, <1>3, FilesStay
<1> QED BY <1>1, <1>7, <1>8, <1>9 DEF SourcesKept, Late

\* The symbols of the pairs of a command are symbols of the exchange.
LEMMA CommandSymbols ==
  ASSUME pc # "idle", pc # "market", SourcesKept, FrozenKept
  PROVE  /\ Listed(run.pairs)
         /\ \A s \in Range(SymbolsOf(run.pairs)) : s \in Symbols
<1>1. Listed(run.pairs) /\ PairsSourced
  BY DEF FrozenKept, CommandKept, SourcesKept
<1>2. \A p \in Range(run.pairs) : p.symbol \in Symbols
  BY <1>1 DEF PairsSourced, ScanPair, ReportPair
<1> QED BY <1>1, <1>2, SymbolsAre

\* The freeze and the history of a command.
LEMMA FreezeSourced ==
  ASSUME SourcesKept, FrozenKept, LedgerKept, BeginFreeze \/ EndFreeze \/ Collect
  PROVE  SourcesKept'
<1>1. /\ pc \in {"freeze", "freezing", "collect"} /\ pc' \in Early
      /\ UNCHANGED <<live, run, market, given>>
  BY DEF BeginFreeze, EndFreeze, Collect, Early
<1>2. /\ run.protocol \in Protocols /\ PairsSourced /\ PlansLeft /\ FilesSourced /\ DiskKept
      /\ pc \in Early
  BY <1>1 DEF SourcesKept, FrozenKept, LedgerKept, RunIs, Early, Protocols
<1>3. PairsSourced' /\ PlansLeft'
  <2>1. pc \notin Late /\ pc' \notin Late
    BY <1>1 DEF Early, Late
  <2>2. PairsSourced'
    <3>1. disk'.check = disk.check
      <4>1. CASE Collect
        BY <1>2, <4>1 DEF Collect, DiskKept
      <4>2. CASE BeginFreeze \/ EndFreeze
        <5>1. PICK f : disk' = WithFreeze(run.protocol, f)
          BY <4>2 DEF BeginFreeze, EndFreeze
        <5>2. CASE run.protocol = "V1"
          BY <1>2, <5>1, <5>2 DEF WithFreeze, DiskKept
        <5>3. CASE run.protocol = "V2"
          BY <1>2, <5>1, <5>3 DEF WithFreeze, DiskKept
        <5>4. CASE run.protocol = "V3"
          BY <1>2, <5>1, <5>4 DEF WithFreeze, DiskKept
        <5> QED BY <1>2, <5>2, <5>3, <5>4 DEF Protocols
      <4> QED BY <4>1, <4>2
    <3> QED BY <1>1, <1>2, <2>1, <3>1 DEF PairsSourced, Scanned
  <2>3. PlansLeft'
    BY <1>1, <1>2 DEF PlansLeft
  <2> QED BY <2>2, <2>3
<1>4. FilesSourced'
  <2>1. CASE BeginFreeze \/ EndFreeze
    <3>1. PICK f : /\ disk' = WithFreeze(run.protocol, f)
                   /\ f.state = "whole" => f.pairs = run.pairs
      BY <2>1 DEF BeginFreeze, EndFreeze, Torn, Whole
    <3>2. /\ disk'.check = disk.check /\ disk'.market = disk.market /\ disk'.history = disk.history
          /\ disk'.v1 = IF run.protocol = "V1" THEN f ELSE disk.v1
          /\ disk'.v3 = IF run.protocol = "V3" THEN f ELSE disk.v3
      <4>1. CASE run.protocol = "V1"
        BY <1>2, <3>1, <4>1 DEF WithFreeze, DiskKept
      <4>2. CASE run.protocol = "V2"
        BY <1>2, <3>1, <4>2 DEF WithFreeze, DiskKept
      <4>3. CASE run.protocol = "V3"
        BY <1>2, <3>1, <4>3 DEF WithFreeze, DiskKept
      <4> QED BY <1>2, <4>1, <4>2, <4>3 DEF Protocols
    <3>3. disk'.v1.state = "whole" => \A c \in Range(disk'.v1.pairs) : ScanPair(c)
      BY <1>2, <3>1, <3>2 DEF FilesSourced, PairsSourced
    <3>4. disk'.v3.state = "whole" => \E r \in AllReports : disk'.v3.pairs = DynamicUniverse(r)
      BY <1>2, <3>1, <3>2 DEF FilesSourced, PairsSourced
    <3> QED BY <1>1, <1>2, <3>2, <3>3, <3>4 DEF FilesSourced, Scanned
  <2>2. CASE Collect
    <3>1. disk' = [disk EXCEPT !.history = @ \union Range(SymbolsOf(run.pairs))]
      BY <2>2 DEF Collect
    <3>2. /\ disk'.v1 = disk.v1 /\ disk'.v3 = disk.v3 /\ disk'.market = disk.market
          /\ disk'.check = disk.check
          /\ disk'.history = disk.history \union Range(SymbolsOf(run.pairs))
      BY <1>2, <3>1 DEF DiskKept
    <3>3. Range(SymbolsOf(run.pairs)) \subseteq Symbols
      BY <1>1, CommandSymbols
    <3> QED BY <1>1, <1>2, <3>2, <3>3 DEF FilesSourced, Scanned
  <2> QED BY <2>1, <2>2
<1> QED BY <1>1, <1>3, <1>4 DEF SourcesKept, Early, Late

\* Before its replays a command knows the steps of its quantities, and V3 the
\* universe whose sections were given.
LEMMA PrepareSourced ==
  ASSUME SourcesKept, FrozenKept, LedgerKept, Prepare
  PROVE  SourcesKept'
<1> DEFINE pairs == IF run.protocol = "V3" THEN Eligible(market, run.pairs, disk.history) ELSE run.pairs
           names == Range(SymbolsOf(pairs))
           of(s) == Only(disk.check.candidates, {c \in Range(disk.check.candidates) : c.symbol = s})
           known == [s \in Symbols |-> of(s)]
           rules == IF run.protocol = "V3" THEN [s \in names |-> Head(known[s])] ELSE <<>>
<1>1. /\ pc = "prepare" /\ UNCHANGED <<disk, live, market, given>>
      /\ \/ pc' = "idle"
         \/ /\ pc' = "begin"
            /\ run.protocol = "V3" => \A s \in names : known[s] # <<>>
            /\ run.protocol # "V3" => \A s \in names : PairOf(live, s) # None
            /\ run' = [run EXCEPT !.pairs = pairs, !.rules = rules]
  BY DEF Prepare
<1>2. /\ RunIs(run) /\ Listed(run.pairs) /\ PairsSourced /\ PlansLeft /\ FilesSourced /\ DiskKept
      /\ live \in Views
  BY <1>1 DEF LedgerKept, FrozenKept, CommandKept, SourcesKept, Early
<1>3. FilesSourced'
  BY <1>1, <1>2, FilesStay
<1>4. CASE pc' = "idle"
  BY <1>3, <1>4 DEF SourcesKept, Late
<1>5. CASE pc' = "begin"
  <2>1. Listed(pairs) /\ Range(pairs) \subseteq Range(run.pairs)
    BY <1>2, EligibleIs
  <2>2. \A p \in Range(pairs) : p.symbol \in Symbols
    BY <1>2, <2>1 DEF PairsSourced, ScanPair, ReportPair
  <2>3. names \subseteq Symbols
    <3> HIDE DEF pairs
    <3> QED BY <2>1, <2>2, SymbolsAre
  <2>4. ASSUME run.protocol = "V3", NEW s \in names PROVE rules[s].step \in Nat \ {0}
    <3> DEFINE S == {c \in Range(disk.check.candidates) : c.symbol = s}
    <3>1. known[s] # <<>> /\ known[s] = of(s) /\ rules[s] = Head(known[s])
      BY <1>1, <1>5, <2>3, <2>4
    <3>2. PICK u \in Views : disk.check.candidates = UniverseScan(u)
      BY <1>2, <2>4 DEF PairsSourced, Scanned
    <3>3. Listed(disk.check.candidates) /\ \A c \in S : ScanPair(c)
      BY <3>2, ScanIsListed, CandidatesAre
    <3>4. of(s) = Only(disk.check.candidates, S)
      OBVIOUS
    <3> HIDE DEF S, known, of, rules, names, pairs
    <3>5. of(s) \in Seq(S)
      BY <3>3, <3>4, OnlyType DEF Listed
    <3>6. Head(of(s)) \in S
      BY <3>1, <3>5
    <3> QED BY <3>1, <3>3, <3>6 DEF ScanPair
  <2>5. run.protocol # "V3" => \A s \in names : PairOf(live, s) # None
    BY <1>1, <1>5
  <2>6. run' = [run EXCEPT !.pairs = pairs, !.rules = rules]
    BY <1>1, <1>5
  <2>7. run.protocol = "V3" => SymbolsOf(pairs) \in Universes(market)
    <3> SUFFICES ASSUME run.protocol = "V3" PROVE SymbolsOf(pairs) \in Universes(market)
      OBVIOUS
    <3>1. PICK r \in AllReports : run.pairs = DynamicUniverse(r)
      BY <1>1, <1>2 DEF PairsSourced, Early
    <3>2. disk.history \in SUBSET Symbols
      BY <1>2 DEF FilesSourced
    <3>3. pairs = Eligible(market, DynamicUniverse(r), disk.history)
      BY <3>1
    <3> QED BY <3>2, <3>3 DEF Universes
  <2> HIDE DEF known, of, rules, pairs
  <2>8. /\ run'.pairs = pairs /\ run'.rules = rules /\ run'.protocol = run.protocol
        /\ run'.fee = run.fee /\ run'.left = run.left
    BY <1>2, <2>6 DEF RunIs
  <2>9. PairsSourced'
    <3>1. pc' \notin Early
      BY <1>5 DEF Early
    <3> QED BY <1>1, <1>2, <2>1, <2>7, <2>8, <3>1 DEF PairsSourced, Scanned
  <2>10. PlansLeft'
    BY <1>1, <1>2, <1>5, <2>8 DEF PlansLeft
  <2>11. StepsKnown'
    BY <1>1, <2>4, <2>5, <2>8 DEF StepsKnown
  <2> QED BY <1>3, <2>9, <2>10, <2>11 DEF SourcesKept
<1> QED BY <1>1, <1>4, <1>5

\* The bars of a replay leave its command alone.
LEMMA ReplaySourced ==
  ASSUME SourcesKept, FrozenKept, LedgerKept, BeginReplay \/ SpotBar \/ RelativeBar
  PROVE  SourcesKept'
<1>1. /\ pc \in {"begin", "bars"} /\ pc' = "bars"
      /\ UNCHANGED <<disk, live, run, market, given>>
  BY DEF BeginReplay, SpotBar, RelativeBar
<1>2. PairsSourced /\ PlansLeft /\ FilesSourced /\ StepsKnown
  BY <1>1 DEF SourcesKept, Late
<1>3. FilesSourced'
  BY <1>1, <1>2, FilesStay
<1>4. PairsSourced' /\ PlansLeft' /\ StepsKnown'
  <2>1. pc \in Late /\ pc' \in Late /\ pc' \notin Early
    BY <1>1 DEF Early, Late
  <2>2. PairsSourced'
    BY <1>1, <1>2, <2>1 DEF PairsSourced, Scanned
  <2>3. PlansLeft'
    BY <1>1, <1>2 DEF PlansLeft
  <2>4. StepsKnown'
    BY <1>1, <1>2 DEF StepsKnown
  <2> QED BY <2>2, <2>3, <2>4
<1> QED BY <1>3, <1>4 DEF SourcesKept

\* The end of a replay leaves the other configurations.
LEMMA FinishSourced ==
  ASSUME SourcesKept, FrozenKept, LedgerKept, FinishReplay
  PROVE  SourcesKept'
<1>1. /\ pc = "bars" /\ pc' = IF Len(run.left) = 1 THEN "deliver" ELSE "begin"
      /\ UNCHANGED <<disk, live, market, given>>
      /\ \E kept : run' = [run EXCEPT !.left = Tail(@), !.kept = kept]
  BY DEF FinishReplay
<1>2. PairsSourced /\ PlansLeft /\ FilesSourced /\ StepsKnown /\ RunIs(run)
  BY <1>1 DEF SourcesKept, Late, LedgerKept
<1>3. FilesSourced'
  BY <1>1, <1>2, FilesStay
<1>4. /\ run'.pairs = run.pairs /\ run'.rules = run.rules /\ run'.protocol = run.protocol
      /\ run'.fee = run.fee /\ run'.left = Tail(run.left)
  BY <1>1, <1>2 DEF RunIs
<1>5. pc' \in {"deliver", "begin"} /\ (pc' # "deliver" => Len(run.left) # 1)
  BY <1>1
<1>6. pc \in Late /\ pc' \in Late /\ pc' \notin Early
  BY <1>1, <1>5 DEF Early, Late
<1>7. PairsSourced'
  BY <1>1, <1>2, <1>4, <1>6 DEF PairsSourced, Scanned
<1>8. StepsKnown'
  BY <1>1, <1>2, <1>4 DEF StepsKnown
<1>9. PlansLeft'
  <2> DEFINE P == Range(Plans[run.protocol])
  <2>1. PICK left \in Seq(P) : left = run.left /\ left # <<>>
    BY <1>1, <1>2 DEF PlansLeft
  <2>2. Tail(left) \in Seq(P) /\ (Len(left) # 1 => Tail(left) # <<>>)
    <3> HIDE DEF P
    <3>1. PICK tail : tail = Tail(left)
      OBVIOUS
    <3>2. tail \in Seq(P) /\ Len(tail) = Len(left) - 1 /\ Len(left) \in Nat
      BY <2>1, <3>1, HeadTailProperties
    <3>3. tail = <<>> => Len(tail) = 0
      OBVIOUS
    <3>4. tail # <<>> \/ Len(left) = 1
      BY ONLY <3>2, <3>3
    <3> QED BY <3>1, <3>2, <3>4
  <2> HIDE DEF P
  <2> QED BY <1>4, <1>5, <2>1, <2>2 DEF PlansLeft, P
<1> QED BY <1>3, <1>7, <1>8, <1>9 DEF SourcesKept

\* Every step keeps the sources.
LEMMA SourcesKeptStep ==
  ASSUME SourcesKept, FrozenKept, LedgerKept, [ReplayNext]_replayVars
  PROVE  SourcesKept'
BY IdleSourced, StartsSourced, MarketSourced, RecoverSourced, FreezeSourced, PrepareSourced,
   ReplaySourced, FinishSourced DEF ReplayNext

\* They hold at first.
LEMMA SourcesKeptInit == ReplayInit => SourcesKept
BY DEF ReplayInit, SourcesKept, FilesSourced, Absent, Late

-----------------------------------------------------------------------------
(***************************************************************************)
(* The account of a replay in numbers.  A round trip leaves what the       *)
(* market gave less its costs, the equity is the capital and what the      *)
(* round trips left, and a day started with what those before it left.     *)
(***************************************************************************)
Result(x) == x.market - x.spread - x.slippage - x.commission

\* A round trip of whole numbers; one of V3 that its stop ended lost no more than its
\* budget.
TradeIs(x) ==
  /\ x.market \in Int /\ x.spread \in Int /\ x.slippage \in Int /\ x.commission \in Int
  /\ x.net = Result(x)
  /\ x.reason = "STRUCTURAL_STOP" => -x.net <= x.budget

\* The round trips that ended before a day.
EndedBefore(b, d) ==
  {i \in DOMAIN b.trades : Day(b.trades[i].to) < d /\ b.trades[i].reason # "END_OF_DATA"}

\* A function on the first numbers is a sequence.
LEMMA SequenceIs ==
  ASSUME NEW S, NEW n \in Nat, NEW f, f = [i \in 1 .. n |-> f[i]], \A i \in 1 .. n : f[i] \in S
  PROVE  f \in Seq(S) /\ Len(f) = n
<1>1. f \in [1 .. n -> S]
  OBVIOUS
<1>2. f \in Seq(S)
  BY <1>1
<1>3. DOMAIN f = 1 .. n /\ DOMAIN f = 1 .. Len(f) /\ Len(f) \in Nat
  BY <1>1, <1>2
<1> QED BY <1>2, <1>3

\* What the round trips of a set left is a number, which depends on those that
\* there are, and one more round trip adds what it left.
LEMMA ExplainedIs ==
  ASSUME NEW S, NEW u \in Seq(S), \A i \in DOMAIN u : TradeIs(u[i]), NEW I
  PROVE  /\ Explained(u, I) \in Int
         /\ \A J : (\A i \in DOMAIN u : i \in I <=> i \in J) => Explained(u, I) = Explained(u, J)
<1> DEFINE f(K) == [i \in DOMAIN u |->
                      IF i \in K THEN u[i].market - u[i].spread - u[i].slippage - u[i].commission
                      ELSE 0]
<1>1. f(I) \in Seq(Int)
  <2>1. \A i \in DOMAIN u : f(I)[i] \in Int
    BY DEF TradeIs
  <2>2. DOMAIN u = 1 .. Len(u) /\ Len(u) \in Nat /\ f(I) = [i \in DOMAIN u |-> f(I)[i]]
    OBVIOUS
  <2> HIDE DEF f
  <2> QED BY <2>1, <2>2
<1>2. Explained(u, I) = Total(f(I))
  BY DEF Explained
<1>3. ASSUME NEW J, \A i \in DOMAIN u : i \in I <=> i \in J PROVE f(I) = f(J)
  BY <1>3
<1>4. \A J : Explained(u, J) = Total(f(J))
  BY DEF Explained
<1> HIDE DEF f
<1> QED BY <1>1, <1>2, <1>3, <1>4, TotalType

\* A round trip more adds its result, when it is counted.
LEMMA ExplainedAppend ==
  ASSUME NEW S, NEW u \in Seq(S), \A i \in DOMAIN u : TradeIs(u[i]), NEW x, TradeIs(x), NEW I
  PROVE  Explained(Append(u, x), I) =
           Explained(u, I) + (IF Len(u) + 1 \in I THEN Result(x) ELSE 0)
<1> DEFINE v == Append(u, x)
           k == Len(u) + 1
           r == IF k \in I THEN Result(x) ELSE 0
           f == [i \in DOMAIN u |->
                   IF i \in I THEN Result(u[i]) ELSE 0]
           g == [i \in DOMAIN v |->
                   IF i \in I THEN Result(v[i]) ELSE 0]
<1>1. PICK n \in Nat : n = Len(u) /\ DOMAIN u = 1 .. n
  OBVIOUS
<1>2. /\ DOMAIN v = 1 .. n + 1 /\ v[n + 1] = x /\ \A i \in 1 .. n : v[i] = u[i]
  <2>1. u \in Seq(S \union {x}) /\ x \in S \union {x}
    OBVIOUS
  <2>2. v \in Seq(S \union {x}) /\ Len(v) = n + 1 /\ v[n + 1] = x /\ \A i \in 1 .. n : v[i] = u[i]
    BY <1>1, <2>1, AppendProperties
  <2> HIDE DEF v
  <2> QED BY <2>2
<1>3. Explained(u, I) = Total(f) /\ Explained(v, I) = Total(g)
  BY DEF Explained, Result
<1>4. r \in Int
  BY DEF TradeIs, Result
<1> HIDE DEF v
<1>0. \A i \in 1 .. n : Result(u[i]) \in Int
  <2> TAKE i \in 1 .. n
  <2> DEFINE y == u[i]
  <2>1. TradeIs(y)
    BY <1>1
  <2> HIDE DEF y
  <2>2. Result(y) \in Int
    BY <2>1 DEF TradeIs, Result
  <2> QED BY <2>2 DEF y
<1>5. \A i \in 1 .. n : f[i] \in Int /\ g[i] = f[i]
  <2> SUFFICES ASSUME NEW i \in 1 .. n PROVE f[i] \in Int /\ g[i] = f[i]
    OBVIOUS
  <2>1. i \in DOMAIN u /\ i \in DOMAIN v /\ v[i] = u[i]
    BY <1>1, <1>2
  <2> QED BY <1>0, <2>1
<1>6. g[n + 1] = r
  BY <1>1, <1>2
<1>7. f = [i \in 1 .. n |-> f[i]] /\ g = [i \in 1 .. n + 1 |-> g[i]]
  BY <1>1, <1>2
<1> HIDE DEF f, g, r
<1>8. f \in Seq(Int) /\ Len(f) = n
  BY <1>5, <1>7, SequenceIs
<1>9. g \in Seq(Int) /\ Len(g) = n + 1
  <2>1. \A i \in 1 .. n + 1 : g[i] \in Int
    BY <1>4, <1>5, <1>6
  <2> QED BY <1>7, <2>1, n + 1 \in Nat, SequenceIs
<1>10. g = Append(f, r)
  BY <1>4, <1>5, <1>6, <1>8, <1>9, AppendsTo
<1>11. Total(Append(f, r)) = Total(f) + r
  BY <1>4, <1>8, TotalAppend
<1> QED BY <1>3, <1>10, <1>11 DEF v, r

\* The account adds up: the equity, and the start of each day.
Adds(b) ==
  /\ BookIs(b)
  /\ b.capital \in Int /\ b.equity \in Int
  /\ \A i \in DOMAIN b.trades : TradeIs(b.trades[i])
  /\ b.equity = b.capital + Explained(b.trades, DOMAIN b.trades)
  /\ b.starts = [d \in Days |-> b.starts[d]]
  /\ \A d \in Days :
       b.starts[d] # None => b.starts[d] = b.capital + Explained(b.trades, EndedBefore(b, d))

\* A position as an entry opens it.  V3 sizes it so that its stop fits the budget.
Safe(p) ==
  /\ p.stop > 0 /\ p.stop <= p.entry
  /\ p.stop * D * D < Bought(p.entry, p.costs)
  /\ p.quantity * ((Bought(p.entry, p.costs) - p.stop * D * D) * D
                   + Bought(p.entry, p.costs) * (2 * (p.costs.fee + p.costs.slip + p.costs.half)))
       <= p.budget

\* A position that a replay of the command at hand may hold.
PositionIs(p) ==
  /\ p.symbol \in Symbols /\ p.quantity \in Nat
  /\ p.entry \in Int /\ p.stop \in Int /\ p.target \in Int /\ p.budget \in Int
  /\ CostsAre(p.costs)
  /\ run.protocol # "V3" => BarTimes(market, p.symbol) # {}
  /\ run.protocol = "V3" => Safe(p)

\* The account while a replay runs, at the time t.
InPlay(b, t) ==
  /\ Adds(b)
  /\ \A d \in Days : b.starts[d] # None => d <= Day(t)
  /\ \A i \in DOMAIN b.trades :
       LET x == b.trades[i]
       IN  x.to \in Times /\ x.to <= t /\ x.reason # "END_OF_DATA" /\ b.starts[Day(x.to)] # None
  /\ Holds(b) => PositionIs(b.position)

\* The account with which a replay begins.
LEMMA EmptyAdds ==
  ASSUME NEW capital \in Int, NEW t \in Times
  PROVE  InPlay(EmptyBook(capital), t)
<1> DEFINE b == EmptyBook(capital)
<1>1. BookIs(b) /\ b.trades = <<>> /\ ~Holds(b)
  BY EmptyBookIs
<1>2. b.capital = capital /\ b.equity = capital /\ b.starts = [d \in Days |-> None]
  BY DEF EmptyBook
<1> HIDE DEF b
<1>3. b.trades \in Seq({}) /\ DOMAIN b.trades = {}
  BY <1>1
<1>4. Explained(b.trades, DOMAIN b.trades) = 0
  <2>1. [i \in DOMAIN b.trades |->
           IF i \in DOMAIN b.trades
             THEN b.trades[i].market - b.trades[i].spread - b.trades[i].slippage
                    - b.trades[i].commission
           ELSE 0] = <<>>
    BY <1>1
  <2> QED BY <2>1, TotalEmpty DEF Explained
<1>5. Adds(b)
  BY <1>1, <1>2, <1>3, <1>4 DEF Adds
<1> QED BY <1>1, <1>2, <1>3, <1>5 DEF InPlay, b

\* A day starts with the equity, which the earlier round trips explain.
LEMMA DayAdds ==
  ASSUME NEW s \in Times, NEW t \in Times, s <= t, NEW b, InPlay(b, s)
  PROVE  InPlay(DayStarted(b, t), t) /\ DayStarted(b, t).starts[Day(t)] # None
<1> DEFINE n == DayStarted(b, t)
<1>1. Day(s) \in Nat /\ Day(t) \in Nat /\ Day(s) <= Day(t) /\ Day(t) \in Days
  BY DaysAreOrdered, DayOfTime
<1>2. Adds(b) /\ BookIs(b) /\ \A i \in DOMAIN b.trades : TradeIs(b.trades[i])
  BY DEF InPlay, Adds
<1>3. \A d \in Days : d \in Nat
  <2>1. \A x \in Times : x <= x
    BY DEF Times
  <2> QED BY <2>1, DaysAreOrdered DEF Days
<1>4. \A i \in DOMAIN b.trades : b.trades[i].to \in Times /\ b.trades[i].to <= t
                                 /\ Day(b.trades[i].to) \in Days
  BY DayOfTime DEF InPlay, Times
<1>5. CASE b.starts[Day(t)] # None
  <2>1. n = b
    BY <1>5 DEF DayStarted
  <2>2. InPlay(b, t)
    BY <1>1, <1>2, <1>3, <1>4 DEF InPlay
  <2> QED BY <1>5, <2>1, <2>2
<1>6. CASE b.starts[Day(t)] = None
  <2>1. n = [b EXCEPT !.starts[Day(t)] = b.equity]
    BY <1>6 DEF DayStarted
  <2>2. /\ BookIs(n) /\ n.ledger = b.ledger /\ n.trades = b.trades /\ n.position = b.position
    BY <1>2, DayStartedIs
  <2>3. /\ n.capital = b.capital /\ n.equity = b.equity
        /\ n.starts = [b.starts EXCEPT ![Day(t)] = b.equity]
    BY <1>2, <2>1 DEF BookIs
  <2> HIDE DEF n
  <2>4. /\ b.starts = [d \in Days |-> b.starts[d]] /\ b.equity \in Int /\ b.equity # None
    BY <1>2, ReplayAssumption DEF Adds
  <2>5. /\ n.starts = [d \in Days |-> n.starts[d]]
        /\ n.starts[Day(t)] = b.equity
        /\ \A d \in Days : d # Day(t) => n.starts[d] = b.starts[d]
    BY <1>1, <2>3, <2>4
  <2>6. \A i \in DOMAIN b.trades : Day(b.trades[i].to) < Day(t)
    <3> SUFFICES ASSUME NEW i \in DOMAIN b.trades PROVE Day(b.trades[i].to) < Day(t)
      OBVIOUS
    <3>1. Day(b.trades[i].to) \in Nat /\ Day(b.trades[i].to) <= Day(t)
      BY <1>4, DaysAreOrdered
    <3>2. b.starts[Day(b.trades[i].to)] # None
      BY DEF InPlay
    <3> QED BY <1>1, <1>6, <3>1, <3>2
  <2>7. \A d : EndedBefore(n, d) = EndedBefore(b, d)
    BY <2>2 DEF EndedBefore
  <2>8. Explained(b.trades, EndedBefore(b, Day(t))) = Explained(b.trades, DOMAIN b.trades)
    <3>1. \A i \in DOMAIN b.trades : i \in EndedBefore(b, Day(t))
      BY <2>6 DEF EndedBefore, InPlay
    <3>2. PICK S : b.trades \in Seq(S)
      BY <1>2 DEF BookIs
    <3> QED BY <1>2, <3>1, <3>2, ExplainedIs
  <2>9. b.equity = b.capital + Explained(b.trades, DOMAIN b.trades)
    BY <1>2 DEF Adds
  <2>10. ASSUME NEW d \in Days, n.starts[d] # None
         PROVE  n.starts[d] = n.capital + Explained(n.trades, EndedBefore(n, d))
    <3>1. CASE d = Day(t)
      BY <2>2, <2>3, <2>5, <2>7, <2>8, <2>9, <3>1
    <3>2. CASE d # Day(t)
      BY <1>2, <2>2, <2>3, <2>5, <2>7, <2>10, <3>2 DEF Adds
    <3> QED BY <3>1, <3>2
  <2>11. Adds(n)
    BY <1>2, <2>2, <2>3, <2>5, <2>10 DEF Adds
  <2>12. ASSUME NEW d \in Days, n.starts[d] # None PROVE d <= Day(t)
    <3>1. d # Day(t) => d <= Day(s)
      BY <2>5, <2>12 DEF InPlay
    <3> QED BY <1>1, <1>3, <3>1
  <2>13. ASSUME NEW i \in DOMAIN n.trades
         PROVE  LET x == n.trades[i]
                IN  x.to \in Times /\ x.to <= t /\ x.reason # "END_OF_DATA" /\ n.starts[Day(x.to)] # None
    <3>1. n.trades[i] = b.trades[i] /\ i \in DOMAIN b.trades
      BY <2>2, <2>13
    <3>2. b.trades[i].reason # "END_OF_DATA" /\ b.starts[Day(b.trades[i].to)] # None
      BY <3>1 DEF InPlay
    <3>3. Day(b.trades[i].to) \in Days /\ Day(b.trades[i].to) # Day(t)
      BY <1>4, <1>6, <3>1, <3>2
    <3> QED BY <1>4, <2>5, <3>1, <3>2, <3>3
  <2>14. Holds(n) => PositionIs(n.position)
    BY <2>2 DEF InPlay, Holds
  <2> QED BY <2>4, <2>5, <2>11, <2>12, <2>13, <2>14 DEF InPlay, n
<1> QED BY <1>5, <1>6

\* The round trip that a close appends.
LEMMA CloseAtTrade ==
  ASSUME NEW b, BookIs(b), NEW t, NEW reference, NEW reason
  PROVE  LET n == CloseAt(b, t, reference, reason)
             p == b.position
             made == TradeOf(p.quantity, p.entry, reference, p.costs)
         IN  \E x : /\ n.trades = Append(b.trades, x)
                    /\ n.equity = b.equity + x.net /\ n.capital = b.capital /\ n.starts = b.starts
                    /\ x.to = t /\ x.reason = reason /\ x.budget = p.budget
                    /\ x.market = made.market /\ x.spread = made.spread
                    /\ x.slippage = made.slippage /\ x.commission = made.commission
                    /\ x.net = made.net
<1> DEFINE n == CloseAt(b, t, reference, reason)
           p == b.position
           made == TradeOf(p.quantity, p.entry, reference, p.costs)
           trade == [market |-> made.market, spread |-> made.spread, slippage |-> made.slippage,
                     commission |-> made.commission, net |-> made.net,
                     symbol |-> p.symbol, from |-> p.time, to |-> t, reason |-> reason,
                     budget |-> p.budget]
<1>1. /\ trade.to = t /\ trade.reason = reason /\ trade.budget = p.budget
      /\ trade.market = made.market /\ trade.spread = made.spread
      /\ trade.slippage = made.slippage /\ trade.commission = made.commission
      /\ trade.net = made.net
  OBVIOUS
<1>2. n = [b EXCEPT !.equity = @ + trade.net, !.position = None,
                    !.trades = Append(@, trade), !.ledger = Exit(b.ledger, t)]
  BY DEF CloseAt
<1> HIDE DEF trade
<1>3. PICK c, e, s, q, u, l : b = [capital |-> c, equity |-> e, starts |-> s, position |-> q,
                                   trades |-> u, ledger |-> l]
  BY DEF BookIs
<1>4. n = [capital |-> c, equity |-> e + trade.net, starts |-> s, position |-> None,
           trades |-> Append(u, trade), ledger |-> Exit(b.ledger, t)]
  <2> HIDE DEF n
  <2> QED BY <1>2, <1>3
<1>5. /\ n.trades = Append(b.trades, trade) /\ n.equity = b.equity + trade.net
      /\ n.capital = b.capital /\ n.starts = b.starts
  <2> HIDE DEF n
  <2> QED BY <1>3, <1>4
<1> HIDE DEF n, made
<1> QED BY <1>1, <1>5 DEF n, made

\* A close keeps the account: its round trip leaves what the market gave less the
\* costs, and a stop of V3 fits the budget.  It belongs to the day of its end,
\* unless it ends with the data.
LEMMA AddsClose ==
  ASSUME NEW b, Adds(b), PositionIs(b.position), NEW t, NEW reference \in Int, NEW reason,
         reason = "STRUCTURAL_STOP" => run.protocol = "V3" /\ reference = b.position.stop,
         reason # "END_OF_DATA" => \A d \in Days : b.starts[d] # None => ~(Day(t) < d)
  PROVE  LET n == CloseAt(b, t, reference, reason)
         IN  /\ Adds(n) /\ n.starts = b.starts
             /\ \E x : n.trades = Append(b.trades, x) /\ x.to = t /\ x.reason = reason
<1> DEFINE n == CloseAt(b, t, reference, reason)
           p == b.position
           made == TradeOf(p.quantity, p.entry, reference, p.costs)
<1>1. BookIs(b) /\ BookIs(n)
  BY CloseAtIs DEF Adds
<1>2. PICK x : /\ n.trades = Append(b.trades, x)
               /\ n.equity = b.equity + x.net /\ n.capital = b.capital /\ n.starts = b.starts
               /\ x.to = t /\ x.reason = reason /\ x.budget = p.budget
               /\ x.market = made.market /\ x.spread = made.spread
               /\ x.slippage = made.slippage /\ x.commission = made.commission
               /\ x.net = made.net
  BY <1>1, CloseAtTrade
<1> HIDE DEF n
<1>3. /\ p.quantity \in Nat /\ p.entry \in Int /\ p.stop \in Int /\ p.budget \in Int
      /\ CostsAre(p.costs) /\ (run.protocol = "V3" => Safe(p))
  BY DEF PositionIs
<1> HIDE DEF p
<1>4. /\ made.market \in Int /\ made.spread \in Int /\ made.slippage \in Int
      /\ made.commission \in Int /\ made.net \in Int
      /\ made.net = made.market - made.spread - made.slippage - made.commission
  BY <1>3, TradeAddsUp
<1>5. reason = "STRUCTURAL_STOP" => -made.net <= p.budget
  <2> SUFFICES ASSUME reason = "STRUCTURAL_STOP" PROVE -made.net <= p.budget
    OBVIOUS
  <2>1. reference = p.stop /\ Safe(p)
    BY <1>3 DEF p
  <2>2. /\ p.stop > 0 /\ p.stop <= p.entry /\ p.stop * D * D < Bought(p.entry, p.costs)
        /\ p.quantity * ((Bought(p.entry, p.costs) - p.stop * D * D) * D
                   + Bought(p.entry, p.costs) * (2 * (p.costs.fee + p.costs.slip + p.costs.half)))
             <= p.budget
    BY <2>1 DEF Safe
  <2>3. -TradeOf(p.quantity, p.entry, p.stop, p.costs).net <= p.budget
    BY <1>3, <2>2, StopLoses
  <2> QED BY <2>1, <2>3
<1> HIDE DEF made
<1>6. TradeIs(x) /\ x.net = Result(x) /\ Result(x) \in Int
  BY <1>2, <1>4, <1>5 DEF TradeIs, Result
<1>7. PICK S : b.trades \in Seq(S)
  BY <1>1 DEF BookIs
<1> DEFINE u == b.trades
           v == n.trades
<1>8. PICK k \in Nat : k = Len(u) /\ DOMAIN u = 1 .. k
  BY <1>7
<1>9. v = Append(u, x) /\ DOMAIN v = 1 .. k + 1 /\ v[k + 1] = x /\ \A i \in 1 .. k : v[i] = u[i]
  <2>1. u \in Seq(S \union {x}) /\ x \in S \union {x}
    BY <1>7
  <2>2. /\ Append(u, x) \in Seq(S \union {x}) /\ Len(Append(u, x)) = k + 1
        /\ Append(u, x)[k + 1] = x /\ \A i \in 1 .. k : Append(u, x)[i] = u[i]
    BY <1>8, <2>1, AppendProperties
  <2>3. v = Append(u, x)
    BY <1>2
  <2> HIDE DEF u, v
  <2> QED BY <2>2, <2>3
<1>10. \A i \in DOMAIN u : TradeIs(u[i])
  BY DEF Adds
<1> HIDE DEF u, v
<1>11. \A i \in DOMAIN v : TradeIs(v[i])
  <2> SUFFICES ASSUME NEW i \in DOMAIN v PROVE TradeIs(v[i])
    OBVIOUS
  <2>1. i = k + 1 \/ i \in 1 .. k
    BY <1>8, <1>9
  <2>2. CASE i = k + 1
    BY <1>6, <1>9, <2>2
  <2>3. CASE i \in 1 .. k
    BY <1>8, <1>9, <1>10, <2>3
  <2> QED BY <2>1, <2>2, <2>3
<1>12. u \in Seq(S)
  BY <1>7 DEF u
<1>13. Explained(v, DOMAIN v) = Explained(u, DOMAIN u) + x.net
  <2>1. Explained(v, DOMAIN v) = Explained(u, DOMAIN v) + (IF Len(u) + 1 \in DOMAIN v THEN Result(x) ELSE 0)
    BY <1>6, <1>9, <1>10, <1>12, ExplainedAppend
  <2>2. Len(u) + 1 \in DOMAIN v
    BY <1>8, <1>9
  <2>3. \A i \in DOMAIN u : i \in DOMAIN v <=> i \in DOMAIN u
    BY <1>8, <1>9
  <2>4. Explained(u, DOMAIN v) = Explained(u, DOMAIN u)
    BY <1>10, <1>12, <2>3, ExplainedIs
  <2> QED BY <1>6, <2>1, <2>2, <2>4
<1>14. ASSUME NEW d \in Days, b.starts[d] # None
       PROVE  Explained(v, EndedBefore(n, d)) = Explained(u, EndedBefore(b, d))
  <2>1. k + 1 \notin EndedBefore(n, d)
    <3>1. v[k + 1].to = t /\ v[k + 1].reason = reason
      BY <1>2, <1>9
    <3> QED BY <1>14, <3>1 DEF EndedBefore, v
  <2>2. \A i \in DOMAIN u : i \in EndedBefore(n, d) <=> i \in EndedBefore(b, d)
    <3>1. \A i \in DOMAIN u : i \in DOMAIN v /\ v[i] = u[i]
      BY <1>8, <1>9
    <3> QED BY <3>1 DEF EndedBefore, u, v
  <2>3. Explained(v, EndedBefore(n, d)) =
          Explained(u, EndedBefore(n, d)) + (IF Len(u) + 1 \in EndedBefore(n, d) THEN Result(x) ELSE 0)
    BY <1>6, <1>9, <1>10, <1>12, ExplainedAppend
  <2>4. Explained(u, EndedBefore(n, d)) = Explained(u, EndedBefore(b, d))
    BY <1>10, <1>12, <2>2, ExplainedIs
  <2>5. Explained(u, EndedBefore(b, d)) \in Int
    BY <1>10, <1>12, ExplainedIs
  <2>6. Len(u) + 1 \notin EndedBefore(n, d)
    BY <1>8, <2>1
  <2> QED BY <2>3, <2>4, <2>5, <2>6
<1>15. /\ b.capital \in Int /\ b.equity \in Int /\ x.net \in Int
       /\ b.equity = b.capital + Explained(u, DOMAIN u)
       /\ b.starts = [d \in Days |-> b.starts[d]]
       /\ \A d \in Days : b.starts[d] # None =>
            b.starts[d] = b.capital + Explained(u, EndedBefore(b, d))
       /\ Explained(u, DOMAIN u) \in Int
  <2>1. Explained(u, DOMAIN u) \in Int
    BY <1>10, <1>12, ExplainedIs
  <2>2. x.net \in Int
    BY <1>6
  <2> QED BY <2>1, <2>2 DEF Adds, u
<1>16. /\ n.capital \in Int /\ n.equity \in Int
       /\ n.equity = n.capital + Explained(v, DOMAIN v)
  BY <1>2, <1>13, <1>15
<1>17. \A d \in Days : n.starts[d] # None =>
         n.starts[d] = n.capital + Explained(v, EndedBefore(n, d))
  BY <1>2, <1>14, <1>15
<1>18. Adds(n)
  BY <1>1, <1>2, <1>11, <1>15, <1>16, <1>17 DEF Adds, v
<1> QED BY <1>2, <1>18 DEF n

\* A close while the replay runs.
LEMMA InPlayClose ==
  ASSUME NEW t \in Times, NEW b, InPlay(b, t), b.starts[Day(t)] # None, PositionIs(b.position),
         NEW reference \in Int, NEW reason, reason # "END_OF_DATA",
         reason = "STRUCTURAL_STOP" => run.protocol = "V3" /\ reference = b.position.stop
  PROVE  LET n == CloseAt(b, t, reference, reason)
         IN  InPlay(n, t) /\ n.starts = b.starts
<1> DEFINE n == CloseAt(b, t, reference, reason)
<1>1. \A d \in Days : b.starts[d] # None => ~(Day(t) < d)
  <2>1. \A x \in Times : x <= x
    BY DEF Times
  <2>2. \A d \in Days : d \in Nat
    BY <2>1, DaysAreOrdered DEF Days
  <2>3. Day(t) \in Nat
    BY <2>1, DaysAreOrdered
  <2> QED BY <2>2, <2>3 DEF InPlay
<1>2. Adds(b) /\ BookIs(b)
  BY DEF InPlay, Adds
<1>3. /\ Adds(n) /\ n.starts = b.starts
      /\ \E x : n.trades = Append(b.trades, x) /\ x.to = t /\ x.reason = reason
  BY <1>1, <1>2, AddsClose
<1>4. ~Holds(n)
  <2>1. n.ledger = Exit(b.ledger, t)
    BY <1>2, CloseAtIs
  <2> HIDE DEF n
  <2> QED BY <2>1 DEF Exit, Holds
<1> HIDE DEF n
<1>5. PICK x : n.trades = Append(b.trades, x) /\ x.to = t /\ x.reason = reason
  BY <1>3
<1>6. ASSUME NEW i \in DOMAIN n.trades
      PROVE  LET y == n.trades[i]
             IN  y.to \in Times /\ y.to <= t /\ y.reason # "END_OF_DATA" /\ n.starts[Day(y.to)] # None
  <2>1. PICK S : b.trades \in Seq(S)
    BY <1>2 DEF BookIs
  <2>2. b.trades \in Seq(S \union {x}) /\ x \in S \union {x}
    BY <2>1
  <2>3. \/ n.trades[i] = x
        \/ i \in DOMAIN b.trades /\ n.trades[i] = b.trades[i]
    BY <1>5, <2>2, AppendProperties
  <2>4. CASE n.trades[i] = x
    <3>1. t <= t
      BY DEF Times
    <3> QED BY <1>3, <1>5, <2>4, <3>1
  <2>5. CASE i \in DOMAIN b.trades /\ n.trades[i] = b.trades[i]
    BY <1>3, <2>5 DEF InPlay
  <2> QED BY <2>3, <2>4, <2>5
<1>7. \A d \in Days : n.starts[d] # None => d <= Day(t)
  BY <1>3 DEF InPlay
<1> QED BY <1>3, <1>4, <1>6, <1>7 DEF InPlay, n

\* An opening while the replay runs.
LEMMA InPlayOpen ==
  ASSUME NEW t \in Times, NEW b, InPlay(b, t), NEW p, PositionIs(p)
  PROVE  LET n == OpenWith(b, p)
         IN  InPlay(n, t) /\ n.starts = b.starts /\ n.position = p
<1> DEFINE n == OpenWith(b, p)
<1>1. Adds(b) /\ BookIs(b)
  BY DEF InPlay, Adds
<1>2. BookIs(n) /\ n.position = p /\ n.trades = b.trades
  BY <1>1, OpenWithIs
<1>3. n.capital = b.capital /\ n.equity = b.equity /\ n.starts = b.starts
  <2> DEFINE m == Enter(b.ledger, p.signal, p.time)
  <2>1. n = [b EXCEPT !.position = p, !.ledger = m]
    BY DEF OpenWith
  <2> HIDE DEF m, n
  <2> QED BY <1>1, <2>1 DEF BookIs
<1> HIDE DEF n
<1>4. \A d : EndedBefore(n, d) = EndedBefore(b, d)
  BY <1>2 DEF EndedBefore
<1>5. Adds(n)
  BY <1>1, <1>2, <1>3, <1>4 DEF Adds
<1>6. \A d \in Days : n.starts[d] # None => d <= Day(t)
  BY <1>3 DEF InPlay
<1>7. \A i \in DOMAIN n.trades :
       LET x == n.trades[i]
       IN  x.to \in Times /\ x.to <= t /\ x.reason # "END_OF_DATA" /\ n.starts[Day(x.to)] # None
  BY <1>2, <1>3 DEF InPlay
<1> QED BY <1>2, <1>3, <1>5, <1>6, <1>7 DEF InPlay, n

-----------------------------------------------------------------------------
\* The costs and the rules of a symbol that a replay trades.
LEMMA PairNamedIs ==
  ASSUME Listed(run.pairs), NEW s \in Range(SymbolsOf(run.pairs))
  PROVE  PairNamed(s) \in Range(run.pairs) /\ PairNamed(s).symbol = s
<1>1. \E i \in DOMAIN run.pairs : run.pairs[i].symbol = s
  <2>1. PICK p \in Range(run.pairs) : p.symbol = s
    BY SymbolsAre
  <2> QED BY <2>1 DEF Range
<1> DEFINE i == CHOOSE j \in DOMAIN run.pairs : run.pairs[j].symbol = s
<1>2. i \in DOMAIN run.pairs /\ run.pairs[i].symbol = s
  BY <1>1
<1>3. PairNamed(s) = run.pairs[i]
  BY DEF PairNamed
<1> HIDE DEF i
<1> QED BY <1>2, <1>3 DEF Range

\* The costs of a symbol are no gains.
LEMMA CostsOfIs ==
  ASSUME SourcesKept, FrozenKept, pc \in Late, NEW s \in Range(SymbolsOf(run.pairs))
  PROVE  CostsAre(CostsOf(s))
<1>1. Listed(run.pairs) /\ PairsSourced
  BY DEF SourcesKept, FrozenKept, CommandKept, Late
<1> DEFINE p == PairNamed(s)
           c == IF run.protocol = "V1" THEN [fee |-> run.fee, half |-> p.half, slip |-> Limits.floor]
                ELSE [fee |-> p.fee, half |-> p.half, slip |-> p.slip]
<1>2. p \in Range(run.pairs)
  BY <1>1, PairNamedIs
<1>3. CostsOf(s) = Scenario(c, Config.stress)
  BY DEF CostsOf
<1> HIDE DEF p
<1>4. CASE run.protocol = "V1"
  <2>1. run.fee \in Nat /\ p.half \in Nat /\ Limits.floor \in Nat
    BY <1>1, <1>2, <1>4, SpotAssumption DEF PairsSourced, ScanPair
  <2>2. CostsAre(c)
    BY <1>4, <2>1 DEF CostsAre
  <2> HIDE DEF c
  <2> QED BY <1>3, <2>2, ScenarioIs
<1>5. CASE run.protocol # "V1"
  <2>1. p.fee \in Nat /\ p.half \in Nat /\ p.slip \in Nat
    BY <1>1, <1>2, <1>5 DEF PairsSourced, ReportPair
  <2>2. CostsAre(c)
    BY <1>5, <2>1 DEF CostsAre
  <2> HIDE DEF c
  <2> QED BY <1>3, <2>2, ScenarioIs
<1> QED BY <1>4, <1>5

\* Its quantities have a step and a largest one.
LEMMA RulesOfAre ==
  ASSUME SourcesKept, FrozenKept, pc \in Late, NEW s \in Range(SymbolsOf(run.pairs))
  PROVE  RulesOf(s).step \in Nat \ {0} /\ RulesOf(s).maximum \in Nat
<1> DEFINE p == IF run.protocol = "V3" THEN run.rules[s] ELSE PairOf(live, s)
<1>1. RulesOf(s).step = p.step /\ RulesOf(s).maximum = Limits.quantity
  BY DEF RulesOf
<1>2. p.step \in Nat \ {0}
  <2>1. StepsKnown /\ live \in Views
    BY DEF SourcesKept, FrozenKept
  <2>2. CASE run.protocol = "V3"
    BY <2>1, <2>2 DEF StepsKnown
  <2>3. CASE run.protocol # "V3"
    <3>1. PairOf(live, s) # None
      BY <2>1, <2>3 DEF StepsKnown
    <3>2. IsPair(PairOf(live, s))
      BY <2>1, <3>1, PairOfIs
    <3> QED BY <2>3, <3>2 DEF IsPair
  <2> QED BY <2>2, <2>3
<1> QED BY <1>1, <1>2, SpotAssumption

\* The signal of a symbol that a replay of V1 or V2 trades.
LEMMA SignalAtIs ==
  ASSUME SourcesKept, FrozenKept, pc \in Late, RunIs(run), run.protocol # "V3",
         NEW s \in Range(SymbolsOf(run.pairs)), NEW t, SignalAt(market, PairNamed(s), t) # None
  PROVE  SignalIs(SignalAt(market, PairNamed(s), t))
<1>1. Listed(run.pairs) /\ PairsSourced /\ given = Given /\ market \in DOMAIN Markets
  BY DEF SourcesKept, FrozenKept, CommandKept, Late, FilesSourced
<1> DEFINE p == PairNamed(s)
           signals == IF run.protocol = "V1" THEN given[market].v1[p.symbol]
                      ELSE given[market].v2[p.symbol][p.cost]
           at == {x \in signals : x.time = t}
<1>2. p \in Range(run.pairs)
  BY <1>1, PairNamedIs
<1>3. SignalAt(market, p, t) = IF at = {} THEN None ELSE CHOOSE x \in at : TRUE
  BY DEF SignalAt
<1> HIDE DEF p
<1>4. \A x \in signals : SignalIs(x)
  <2>1. CASE run.protocol = "V1"
    <3>1. p.symbol \in Symbols
      BY <1>1, <1>2, <2>1 DEF PairsSourced, ScanPair
    <3> QED BY <1>1, <2>1, <3>1, GivenSignals
  <2>2. CASE run.protocol # "V1"
    <3>1. p.symbol \in Symbols /\ p.cost \in CostsShown
      BY <1>1, <1>2, <2>2 DEF PairsSourced, ReportPair
    <3> QED BY <1>1, <2>2, <3>1, GivenSignals
  <2> QED BY <2>1, <2>2
<1>5. \A x \in at : SignalIs(x)
  BY <1>4
<1>6. SignalAt(market, p, t) # None
  BY DEF p
<1> HIDE DEF at
<1>7. at # {} => (CHOOSE x \in at : TRUE) \in at
  OBVIOUS
<1> QED BY <1>3, <1>5, <1>6, <1>7 DEF p

\* What a barrier is.
LEMMA BarrierIs ==
  ASSUME NEW p, NEW bar
  PROVE  Barrier(p, bar) \in {"STOP", "TARGET", "NONE"}
BY DEF Barrier

\* A position that leaves at its stop or at its target keeps the account.
LEMMA InPlayBarrier ==
  ASSUME NEW t \in Times, NEW b, InPlay(b, t), b.starts[Day(t)] # None, PositionIs(b.position),
         NEW barrier \in {"STOP", "TARGET"}
  PROVE  InPlay(AtBarrier(b, t, barrier), t) /\ AtBarrier(b, t, barrier).starts = b.starts
<1> DEFINE reference == IF barrier = "STOP" THEN b.position.stop ELSE b.position.target
<1>1. AtBarrier(b, t, barrier) = CloseAt(b, t, reference, barrier)
  BY DEF AtBarrier
<1>2. reference \in Int
  BY DEF PositionIs
<1> HIDE DEF reference
<1>3. barrier # "END_OF_DATA" /\ barrier # "STRUCTURAL_STOP"
  OBVIOUS
<1> QED BY <1>1, <1>2, <1>3, InPlayClose

\* A bar of V1 or V2 ends at a barrier, at its close or not at all.
LEMMA InPlaySpotExit ==
  ASSUME SourcesKept, NEW t \in Times, NEW b, InPlay(b, t), b.starts[Day(t)] # None
  PROVE  InPlay(SpotExit(b, t), t) /\ SpotExit(b, t).starts = b.starts
<1> DEFINE p == b.position
           bar == given[market].bars[p.symbol][t]
           touched == Barrier(p, bar)
<1>1. SpotExit(b, t) =
        IF ~Holds(b) THEN b
        ELSE CASE bar = None -> b
               [] bar # None /\ touched # "NONE" -> AtBarrier(b, t, touched)
               [] bar # None /\ touched = "NONE" /\ t - p.time >= HoldLimit ->
                    CloseAt(b, t, bar.close, "TIMEOUT")
               [] OTHER -> b
  BY DEF SpotExit
<1>2. Holds(b) => PositionIs(p)
  BY DEF InPlay
<1>3. touched \in {"STOP", "TARGET", "NONE"}
  BY BarrierIs
<1>4. ASSUME Holds(b), bar # None PROVE bar.close \in Int
  <2>1. p.symbol \in Symbols
    BY <1>2, <1>4 DEF PositionIs
  <2>2. given = Given /\ market \in DOMAIN Markets
    BY DEF SourcesKept, FilesSourced
  <2>3. bar \in Bars
    BY <1>4, <2>1, <2>2, GivenBars
  <2> HIDE DEF bar
  <2> QED BY <2>3, BarIs
<1> HIDE DEF bar, touched
<1>5. ASSUME Holds(b), touched # "NONE"
      PROVE  InPlay(AtBarrier(b, t, touched), t) /\ AtBarrier(b, t, touched).starts = b.starts
  BY <1>2, <1>3, <1>5, InPlayBarrier
<1>6. ASSUME Holds(b), bar # None
      PROVE  InPlay(CloseAt(b, t, bar.close, "TIMEOUT"), t)
             /\ CloseAt(b, t, bar.close, "TIMEOUT").starts = b.starts
  <2>1. bar.close \in Int
    BY <1>4, <1>6
  <2> QED BY <1>2, <1>6, <2>1, InPlayClose
<1> HIDE DEF p
<1> QED BY <1>1, <1>5, <1>6

\* What is bought at a whole price costs a whole amount.
LEMMA BoughtType ==
  ASSUME NEW reference \in Int, NEW c, CostsAre(c)
  PROVE  /\ Bought(reference, c) \in Int
         /\ Bought(reference, c) * (D + c.fee) \in Int
         /\ Bought(reference, c) * D \in Int
<1>1. PICK f \in Int, h \in Int, s \in Int, d \in Int : f = c.fee /\ h = c.half /\ s = c.slip /\ d = D
  BY SpotAssumption DEF CostsAre
<1>2. Bought(reference, c) = reference * (d + h) * (d + s)
  BY <1>1 DEF Bought
<1>3. PICK x \in Int : x = reference * (d + h) * (d + s)
  OBVIOUS
<1>4. x * (d + f) \in Int /\ x * d \in Int
  OBVIOUS
<1> QED BY <1>1, <1>2, <1>3, <1>4

\* The position that an entry of V1 or V2 opens.
LEMMA SpotPositionIs ==
  ASSUME SourcesKept, FrozenKept, pc \in Late, RunIs(run), run.protocol # "V3",
         NEW t \in Times, NEW b, Adds(b), NEW s \in SpotCandidates(t)
  PROVE  LET signal == SignalAt(market, PairNamed(s), t)
             bar == given[market].bars[s][t]
             c == CostsOf(s)
             stop == bar.open - (signal.entry - signal.stop)
             bought == Bought(bar.open, c)
             quantity == SizeOf(b.equity, bought, stop, bought * (D + c.fee), 2 * (c.fee + c.slip),
                                RulesOf(s))
         IN  PositionIs([symbol |-> s, signal |-> t, time |-> t, quantity |-> quantity,
                         entry |-> bar.open, stop |-> stop, costs |-> c,
                         target |-> bar.open + (signal.target - signal.entry),
                         budget |-> b.equity \div RiskFraction])
<1> DEFINE signal == SignalAt(market, PairNamed(s), t)
           bar == given[market].bars[s][t]
           c == CostsOf(s)
           stop == bar.open - (signal.entry - signal.stop)
           target == bar.open + (signal.target - signal.entry)
           bought == Bought(bar.open, c)
           quantity == SizeOf(b.equity, bought, stop, bought * (D + c.fee), 2 * (c.fee + c.slip),
                              RulesOf(s))
           budget == b.equity \div RiskFraction
           p == [symbol |-> s, signal |-> t, time |-> t, quantity |-> quantity,
                 entry |-> bar.open, stop |-> stop, costs |-> c, target |-> target,
                 budget |-> budget]
<1>1. s \in Range(SymbolsOf(run.pairs)) /\ signal # None /\ bar # None
  BY DEF SpotCandidates
<1>2. s \in Symbols
  BY <1>1, CommandSymbols DEF Late
<1>3. given = Given /\ market \in DOMAIN Markets
  BY DEF SourcesKept, FilesSourced
<1>4. BarTimes(market, s) # {}
  BY <1>1 DEF BarTimes
<1>5. bar.open \in Int
  <2>1. bar \in Bars
    BY <1>1, <1>2, <1>3, GivenBars
  <2> HIDE DEF bar
  <2> QED BY <2>1, BarIs
<1>6. signal.entry \in Int /\ signal.stop \in Int /\ signal.target \in Int
  BY <1>1, SignalAtIs DEF SignalIs
<1>7. CostsAre(c) /\ RulesOf(s).step \in Nat \ {0} /\ RulesOf(s).maximum \in Nat
  BY <1>1, CostsOfIs, RulesOfAre
<1>8. b.equity \in Int
  BY DEF Adds
<1> HIDE DEF signal, bar, c
<1>9. stop \in Int /\ target \in Int
  BY <1>5, <1>6
<1>10. bought \in Int /\ bought * (D + c.fee) \in Int
  BY <1>5, <1>7, BoughtType
<1>11. 2 * (c.fee + c.slip) \in Int
  BY <1>7 DEF CostsAre
<1> HIDE DEF stop, bought
<1>12. quantity \in Nat
  BY <1>7, <1>8, <1>9, <1>10, <1>11, SizeIs
<1>13. budget \in Int
  BY <1>8, SpotAssumption, DivisionType
<1> HIDE DEF quantity, budget, target
<1>14. /\ p.symbol = s /\ p.quantity = quantity /\ p.entry = bar.open /\ p.stop = stop
       /\ p.costs = c /\ p.target = target /\ p.budget = budget
  OBVIOUS
<1> HIDE DEF p
<1>15. PositionIs(p)
  BY <1>2, <1>4, <1>5, <1>7, <1>9, <1>12, <1>13, <1>14 DEF PositionIs
<1> QED BY <1>15 DEF p, quantity, budget, target, stop, bought, signal, bar, c

\* An entry of V1 or V2 opens a position, which may end at a barrier of its bar.
LEMMA InPlaySpotEntry ==
  ASSUME SourcesKept, FrozenKept, pc \in Late, RunIs(run), run.protocol # "V3",
         NEW t \in Times, NEW b, InPlay(b, t), b.starts[Day(t)] # None
  PROVE  InPlay(SpotEntry(b, t), t)
<1> DEFINE candidates == SpotCandidates(t)
           leading == {s \in candidates : \A r \in candidates :
                         \/ SpotScore(s, t) > SpotScore(r, t)
                         \/ /\ SpotScore(s, t) = SpotScore(r, t)
                            /\ Position(Alphabet, s) <= Position(Alphabet, r)}
           best == CHOOSE s \in leading : TRUE
           signal == SignalAt(market, PairNamed(best), t)
           bar == given[market].bars[best][t]
           c == CostsOf(best)
           stop == bar.open - (signal.entry - signal.stop)
           bought == Bought(bar.open, c)
           quantity == SizeOf(b.equity, bought, stop, bought * (D + c.fee), 2 * (c.fee + c.slip),
                              RulesOf(best))
           p == [symbol |-> best, signal |-> t, time |-> t, quantity |-> quantity,
                 entry |-> bar.open, stop |-> stop, costs |-> c,
                 target |-> bar.open + (signal.target - signal.entry),
                 budget |-> b.equity \div RiskFraction]
           opened == OpenWith(b, p)
           barrier == Barrier(opened.position, bar)
           refused == \/ Holds(b)
                      \/ ~DayActive(b, Day(t))
                      \/ run.protocol = "V2" /\ ~CooledDown(b.ledger, t)
                      \/ leading = {}
<1>1. SpotEntry(b, t) = IF refused THEN b
                        ELSE IF quantity = 0 THEN b
                        ELSE IF barrier = "NONE" THEN opened
                        ELSE AtBarrier(opened, t, barrier)
  BY DEF SpotEntry
<1>2. ASSUME ~refused PROVE best \in SpotCandidates(t)
  <2> HIDE DEF best
  <2>1. best = CHOOSE s \in leading : TRUE
    BY DEF best
  <2>2. leading # {}
    BY <1>2
  <2> HIDE DEF leading
  <2>3. best \in leading
    BY <2>1, <2>2
  <2> QED BY <2>3 DEF leading
<1>3. ASSUME ~refused PROVE PositionIs(p)
  <2>1. best \in SpotCandidates(t)
    BY <1>2, <1>3
  <2>2. Adds(b)
    BY DEF InPlay
  <2> HIDE DEF best
  <2> QED BY <2>1, <2>2, SpotPositionIs
<1>4. barrier \in {"STOP", "TARGET", "NONE"}
  BY BarrierIs
<1>5. opened = OpenWith(b, p)
  OBVIOUS
<1> HIDE DEF refused, p, opened, barrier, quantity
<1>6. ASSUME ~refused PROVE InPlay(opened, t) /\ opened.starts = b.starts /\ opened.position = p
  BY <1>3, <1>5, <1>6, InPlayOpen
<1>7. ASSUME ~refused, barrier # "NONE" PROVE InPlay(AtBarrier(opened, t, barrier), t)
  <2>1. barrier \in {"STOP", "TARGET"} /\ PositionIs(opened.position) /\ opened.starts[Day(t)] # None
    BY <1>3, <1>4, <1>6, <1>7
  <2> QED BY <1>6, <1>7, <2>1, InPlayBarrier
<1> QED BY <1>1, <1>6, <1>7

\* At a section of V3 the bar that confirms it began a whole number of minutes ago.
LEMMA SectionBegins ==
  ASSUME run.protocol = "V3", NEW t \in Times, t \in Timeline
  PROVE  /\ t - Minutes.m5 \in Times
         /\ t - Minutes.m5 \in DOMAIN given[market].sections[SymbolsOf(run.pairs)]
<1>1. /\ t - Minutes.m5 >= Validation
      /\ t - Minutes.m5 \in DOMAIN given[market].sections[SymbolsOf(run.pairs)]
  BY DEF Timeline
<1>2. Minutes.m5 \in Nat /\ Validation \in Nat /\ Horizon \in Nat
  BY ReplayAssumption, StrategyAssumption
<1> QED BY <1>1, <1>2 DEF Times

\* A section of V3 ends the position at its stop, at its target, at the open of its
\* bar or not at all.
LEMMA InPlayRelativeExit ==
  ASSUME SourcesKept, NEW t \in Times, NEW b, InPlay(b, t), b.starts[Day(t)] # None,
         run.protocol = "V3", t \in Timeline
  PROVE  InPlay(RelativeExit(b, t), t) /\ RelativeExit(b, t).starts = b.starts
<1> DEFINE p == b.position
           bar == given[market].bars[p.symbol][t - Minutes.m5]
           section == Section(t)
           item == SelectSeq(section.ranked, LAMBDA x : x.feature.symbol = p.symbol)
           reason ==
             CASE bar.low <= p.stop -> "STRUCTURAL_STOP"
               [] bar.low > p.stop /\ bar.high >= p.target -> "TARGET"
               [] OTHER ->
                  CASE t - p.time >= Config.timeout -> "TIMEOUT"
                    [] t - p.time < Config.timeout
                         /\ p.symbol \notin LeaderSymbols(section, Config.leaders) -> "LEADER_LOST"
                    [] t - p.time < Config.timeout
                         /\ p.symbol \in LeaderSymbols(section, Config.leaders)
                         /\ Head(item).feature.h1 <= 0 -> "MOMENTUM_REVERSED"
                    [] OTHER -> "NONE"
           reference == CASE reason = "STRUCTURAL_STOP" -> p.stop
                          [] reason = "TARGET" -> p.target
                          [] OTHER -> bar.open
<1>1. RelativeExit(b, t) = IF ~Holds(b) THEN b
                           ELSE IF bar = None \/ reason = "NONE" THEN b
                           ELSE CloseAt(b, t, reference, reason)
  BY DEF RelativeExit
<1>2. Holds(b) => PositionIs(p)
  BY DEF InPlay
<1>3. reason # "END_OF_DATA"
  <2> DEFINE later == CASE t - p.time >= Config.timeout -> "TIMEOUT"
                        [] t - p.time < Config.timeout
                             /\ p.symbol \notin LeaderSymbols(section, Config.leaders) -> "LEADER_LOST"
                        [] t - p.time < Config.timeout
                             /\ p.symbol \in LeaderSymbols(section, Config.leaders)
                             /\ Head(item).feature.h1 <= 0 -> "MOMENTUM_REVERSED"
                        [] OTHER -> "NONE"
  <2> HIDE DEF p, bar, section, item
  <2>1. later # "END_OF_DATA"
    OBVIOUS
  <2>2. reason = CASE bar.low <= p.stop -> "STRUCTURAL_STOP"
                   [] bar.low > p.stop /\ bar.high >= p.target -> "TARGET"
                   [] OTHER -> later
    OBVIOUS
  <2> HIDE DEF later, reason
  <2> QED BY <2>1, <2>2
<1>4. ASSUME Holds(b), bar # None PROVE bar.open \in Int
  <2>1. p.symbol \in Symbols
    BY <1>2, <1>4 DEF PositionIs
  <2>2. given = Given /\ market \in DOMAIN Markets /\ t - Minutes.m5 \in Times
    BY SectionBegins DEF SourcesKept, FilesSourced
  <2>3. bar \in Bars
    BY <1>4, <2>1, <2>2, GivenBars
  <2> HIDE DEF bar
  <2> QED BY <2>3, BarIs
<1> HIDE DEF bar, reason, section, item
<1>5. ASSUME Holds(b), bar # None, reason # "NONE"
      PROVE  InPlay(CloseAt(b, t, reference, reason), t)
             /\ CloseAt(b, t, reference, reason).starts = b.starts
  <2>1. PositionIs(p) /\ p.stop \in Int /\ p.target \in Int /\ bar.open \in Int
    BY <1>2, <1>4, <1>5 DEF PositionIs
  <2>2. reference \in Int /\ (reason = "STRUCTURAL_STOP" => reference = p.stop)
    BY <2>1
  <2> HIDE DEF reference
  <2> QED BY <1>3, <2>1, <2>2, InPlayClose
<1> HIDE DEF p, reference
<1> QED BY <1>1, <1>5

\* A price less a distance, in ticks, is not above the price.
LEMMA TicksBelow ==
  ASSUME NEW k \in Nat \ {0}, NEW r \in Int, NEW d \in Nat
  PROVE  (k * r - d) \div k \in Int /\ (k * r - d) \div k <= r
<1>1. PICK n \in Int : n = k * r - d
  OBVIOUS
<1>2. PICK q \in Int : q = n \div k /\ k * q <= n
  BY <1>1
<1>3. k * q <= k * r
  <2>1. k * r \in Int /\ k * q \in Int
    OBVIOUS
  <2> QED BY <1>1, <1>2, <2>1
<1>4. q <= r
  <2>1. \A y \in Nat \ {0} : k * y \in Nat \ {0}
    OBVIOUS
  <2>2. k * (q - r) = k * q - k * r /\ k * q \in Int /\ k * r \in Int
    OBVIOUS
  <2>3. q > r => q - r \in Nat \ {0}
    OBVIOUS
  <2> QED BY <1>3, <2>1, <2>2, <2>3
<1> QED BY <1>1, <1>2, <1>4

\* The stop and the target of V3.
LEMMA RelativeLevels ==
  ASSUME NEW atr \in Int, NEW reference \in Int, reference > 0
  PROVE  LET distance == Max({3 * atr, (6 * Fine * reference) \div 1000}) \div 2
         IN  /\ Ticks(Fine * reference - distance) \in Int
             /\ Ticks(Fine * reference - distance) <= reference
             /\ Ticks(Fine * reference + 2 * distance) \in Int
<1> DEFINE a == 3 * atr
           m == (6 * Fine * reference) \div 1000
           distance == Max({a, m}) \div 2
<1>1. Fine \in Nat \ {0}
  BY StrategyAssumption
<1>2. a \in Int /\ m \in Nat
  <2>1. PICK n \in Nat : n = 6 * Fine * reference
    <3>1. Fine \in Nat /\ reference \in Nat
      BY <1>1
    <3> QED BY <3>1
  <2>2. n \div 1000 \in Nat
    OBVIOUS
  <2> QED BY <2>1, <2>2
<1> HIDE DEF a, m
<1>3. Max({a, m}) \in Nat
  BY <1>2, OfTwo
<1>4. distance \in Nat
  <2>1. PICK x \in Nat : x = Max({a, m})
    BY <1>3
  <2>2. x \div 2 \in Nat
    OBVIOUS
  <2> QED BY <2>1, <2>2
<1> HIDE DEF distance
<1>5. /\ Ticks(Fine * reference - distance) \in Int
      /\ Ticks(Fine * reference - distance) <= reference
  BY <1>1, <1>4, TicksBelow DEF Ticks
<1>6. Ticks(Fine * reference + 2 * distance) \in Int
  <2>1. Fine * reference + 2 * distance \in Int
    BY <1>1, <1>4
  <2> QED BY <1>1, <2>1, DivisionType DEF Ticks
<1> QED BY <1>5, <1>6 DEF distance, a, m

\* What V3 may enter at a section: a symbol of its universe whose bar confirms it.
LEMMA RelativeCandidateIs ==
  ASSUME SourcesKept, FrozenKept, pc = "bars", run.protocol = "V3", NEW t \in Times, t \in Timeline
  PROVE  LET bars == [s \in Symbols |-> given[market].bars[s][t - Minutes.m5]]
             decision == Evaluate(Section(t), Profiles, bars, Config.leaders)
             f == decision.candidate.feature
         IN  decision.candidate # None =>
               /\ f.symbol \in Range(SymbolsOf(run.pairs)) /\ f.symbol \in Symbols /\ f.atr \in Int
               /\ bars[f.symbol].close \in Int /\ bars[f.symbol].close > 0
<1> DEFINE bars == [s \in Symbols |-> given[market].bars[s][t - Minutes.m5]]
           decision == Evaluate(Section(t), Profiles, bars, Config.leaders)
           f == decision.candidate.feature
           u == SymbolsOf(run.pairs)
<1> SUFFICES ASSUME decision.candidate # None
             PROVE  /\ f.symbol \in Range(u) /\ f.symbol \in Symbols /\ f.atr \in Int
                    /\ bars[f.symbol].close \in Int /\ bars[f.symbol].close > 0
  OBVIOUS
<1>1. /\ given = Given /\ market \in DOMAIN Markets /\ PairsSourced /\ PlansLeft
  BY DEF SourcesKept, FilesSourced
<1>2. u \in Universes(market)
  BY <1>1 DEF PairsSourced, Late
<1>3. t - Minutes.m5 \in Times /\ t - Minutes.m5 \in DOMAIN given[market].sections[u]
  BY SectionBegins
<1>4. RankedIs(Section(t).ranked, Range(u))
  <2>1. RankedIs(given[market].sections[u][t - Minutes.m5].ranked, Range(u))
    BY <1>1, <1>2, <1>3, GivenSections
  <2> QED BY <2>1 DEF Section
<1>5. Config.leaders \in Nat
  <2> DEFINE P == Range(Plans["V3"])
  <2>1. PICK left \in Seq(P) : left = run.left /\ left # <<>>
    BY <1>1 DEF PlansLeft
  <2>2. Head(left) \in P
    <3> HIDE DEF P
    <3> QED BY <2>1
  <2>3. \A c \in P : c.leaders \in Nat
    BY PlansAre DEF Protocols
  <2> QED BY <2>1, <2>2, <2>3 DEF Config
<1>6. FeatureIs(f, Range(u)) /\ Confirmed(bars[f.symbol])
  <2> HIDE DEF bars
  <2> QED BY <1>4, <1>5, CandidateIs
<1> HIDE DEF f, decision
<1>7. f.symbol \in Range(u) /\ f.atr \in Int
  BY <1>6 DEF FeatureIs
<1>8. f.symbol \in Symbols
  BY <1>2, <1>7, UniversesAre
<1>9. bars[f.symbol] # None /\ bars[f.symbol] = given[market].bars[f.symbol][t - Minutes.m5]
  BY <1>6, <1>8 DEF Confirmed
<1>10. bars[f.symbol] \in Bars
  BY <1>1, <1>3, <1>8, <1>9, GivenBars
<1> HIDE DEF bars
<1>11. bars[f.symbol].close \in Int /\ bars[f.symbol].open \in Int
  BY <1>10, BarIs
<1>12. bars[f.symbol].close > 0
  BY <1>6, <1>11 DEF Confirmed
<1> QED BY <1>7, <1>8, <1>11, <1>12

\* The position that an entry of V3 opens: the loss at its stop fits its budget.
LEMMA RelativePositionIs ==
  ASSUME SourcesKept, FrozenKept, pc = "bars", run.protocol = "V3", NEW t, NEW b, Adds(b),
         NEW f, f.symbol \in Range(SymbolsOf(run.pairs)), f.symbol \in Symbols, f.atr \in Int,
         NEW reference \in Int, reference > 0
  PROVE  LET c == CostsOf(f.symbol)
             distance == Max({3 * f.atr, (6 * Fine * reference) \div 1000}) \div 2
             stop == Ticks(Fine * reference - distance)
             bought == Bought(reference, c)
             quantity == SizeOf(b.equity, bought, stop, bought * D, 2 * (c.fee + c.slip + c.half),
                                RulesOf(f.symbol))
         IN  quantity # 0 =>
               PositionIs([symbol |-> f.symbol, signal |-> t - Minutes.m5, time |-> t,
                           quantity |-> quantity, entry |-> reference, stop |-> stop, costs |-> c,
                           target |-> Ticks(Fine * reference + 2 * distance),
                           budget |-> b.equity \div RiskFraction])
<1> DEFINE c == CostsOf(f.symbol)
           distance == Max({3 * f.atr, (6 * Fine * reference) \div 1000}) \div 2
           stop == Ticks(Fine * reference - distance)
           target == Ticks(Fine * reference + 2 * distance)
           bought == Bought(reference, c)
           rate == 2 * (c.fee + c.slip + c.half)
           quantity == SizeOf(b.equity, bought, stop, bought * D, rate, RulesOf(f.symbol))
           budget == b.equity \div RiskFraction
           p == [symbol |-> f.symbol, signal |-> t - Minutes.m5, time |-> t,
                 quantity |-> quantity, entry |-> reference, stop |-> stop, costs |-> c,
                 target |-> target, budget |-> budget]
<1> SUFFICES ASSUME quantity # 0 PROVE PositionIs(p)
  OBVIOUS
<1>1. CostsAre(c) /\ RulesOf(f.symbol).step \in Nat \ {0} /\ RulesOf(f.symbol).maximum \in Nat
  BY CostsOfIs, RulesOfAre DEF Late
<1>2. stop \in Int /\ stop <= reference /\ target \in Int
  BY RelativeLevels
<1> HIDE DEF c, stop, target, distance
<1>3. bought \in Int /\ bought * D \in Int
  BY <1>1, BoughtType
<1>4. rate \in Int /\ rate = 2 * (c.fee + c.slip + c.half)
  BY <1>1 DEF CostsAre
<1>5. b.equity \in Int /\ bought = Bought(reference, c)
  BY DEF Adds
<1>6. budget \in Int
  BY <1>5, SpotAssumption, DivisionType
<1> HIDE DEF bought, rate
<1>7. /\ quantity \in Nat
      /\ stop > 0 /\ stop * D * D < bought
      /\ quantity * ((bought - stop * D * D) * D + bought * rate) <= budget
  BY <1>1, <1>2, <1>3, <1>4, <1>5, SizeIs
<1> HIDE DEF quantity, budget
<1>8. /\ p.symbol = f.symbol /\ p.quantity = quantity /\ p.entry = reference /\ p.stop = stop
      /\ p.costs = c /\ p.target = target /\ p.budget = budget
  OBVIOUS
<1> HIDE DEF p
<1>9. Safe(p)
  BY <1>2, <1>4, <1>5, <1>7, <1>8 DEF Safe
<1>10. PositionIs(p)
  BY <1>1, <1>2, <1>6, <1>7, <1>8, <1>9 DEF PositionIs
<1> QED BY <1>10

\* An entry of V3 opens a position whose stop fits the budget.
LEMMA InPlayRelativeEntry ==
  ASSUME SourcesKept, FrozenKept, pc = "bars", run.protocol = "V3", NEW t \in Times, t \in Timeline,
         NEW b, InPlay(b, t)
  PROVE  InPlay(RelativeEntry(b, t), t)
<1> DEFINE bars == [s \in Symbols |-> given[market].bars[s][t - Minutes.m5]]
           decision == Evaluate(Section(t), Profiles, bars, Config.leaders)
           f == decision.candidate.feature
           reference == bars[f.symbol].close
           c == CostsOf(f.symbol)
           distance == Max({3 * f.atr, (6 * Fine * reference) \div 1000}) \div 2
           stop == Ticks(Fine * reference - distance)
           bought == Bought(reference, c)
           quantity == SizeOf(b.equity, bought, stop, bought * D, 2 * (c.fee + c.slip + c.half),
                              RulesOf(f.symbol))
           p == [symbol |-> f.symbol, signal |-> t - Minutes.m5, time |-> t,
                 quantity |-> quantity, entry |-> reference, stop |-> stop, costs |-> c,
                 target |-> Ticks(Fine * reference + 2 * distance),
                 budget |-> b.equity \div RiskFraction]
           refused == \/ Holds(b)
                      \/ ~decision.riskOn
                      \/ ~InsideLimits(b, Day(t))
                      \/ ~CanEnter(b.ledger, t)
                      \/ decision.candidate = None
<1>1. RelativeEntry(b, t) = IF refused THEN b ELSE IF quantity = 0 THEN b ELSE OpenWith(b, p)
  BY DEF RelativeEntry
<1>2. decision.candidate # None =>
        /\ f.symbol \in Range(SymbolsOf(run.pairs)) /\ f.symbol \in Symbols /\ f.atr \in Int
        /\ reference \in Int /\ reference > 0
  BY RelativeCandidateIs
<1>3. ~refused => decision.candidate # None
  OBVIOUS
<1>4. Adds(b)
  BY DEF InPlay
<1> HIDE DEF refused, decision, bars, f, reference
<1>5. ASSUME ~refused, quantity # 0 PROVE PositionIs(p)
  <2>1. /\ f.symbol \in Range(SymbolsOf(run.pairs)) /\ f.symbol \in Symbols /\ f.atr \in Int
        /\ reference \in Int /\ reference > 0
    BY <1>2, <1>3, <1>5
  <2> QED BY <1>4, <1>5, <2>1, RelativePositionIs
<1> HIDE DEF quantity, p
<1>6. ASSUME ~refused, quantity # 0 PROVE InPlay(OpenWith(b, p), t)
  BY <1>5, <1>6, InPlayOpen
<1> QED BY <1>1, <1>6

\* The account adds up after every command, and while a replay runs every position
\* is one that an entry may open.
MoneyKept ==
  /\ Adds(book)
  /\ pc = "bars" => InPlay(book, now)

\* A bar keeps the account.
LEMMA BarsAdd ==
  ASSUME MoneyKept, SourcesKept, FrozenKept, LedgerKept, SpotBar \/ RelativeBar
  PROVE  MoneyKept'
<1> DEFINE t == Min(Ahead)
           n == DayStarted(book, t)
<1>1. /\ pc = "bars" /\ Ahead # {} /\ now' = t
      /\ UNCHANGED <<pc, run, disk, live, market, given>>
      /\ now \in Times /\ RunIs(run) /\ InPlay(book, now)
  BY DEF SpotBar, RelativeBar, LedgerKept, MoneyKept
<1>2. t \in Timeline /\ t \in Times /\ now <= t
  BY <1>1, NextBar
<1> HIDE DEF t
<1>3. InPlay(n, t) /\ n.starts[Day(t)] # None
  BY <1>1, <1>2, DayAdds
<1> HIDE DEF n
<1>4. InPlay(book', t)
  <2>1. CASE SpotBar
    <3>1. run.protocol # "V3" /\ book' = SpotEntry(SpotExit(n, t), t)
      BY <2>1 DEF SpotBar, n, t
    <3>2. InPlay(SpotExit(n, t), t) /\ SpotExit(n, t).starts[Day(t)] # None
      BY <1>2, <1>3, InPlaySpotExit
    <3> QED BY <1>1, <1>2, <3>1, <3>2, InPlaySpotEntry DEF Late
  <2>2. CASE RelativeBar
    <3>1. run.protocol = "V3" /\ book' = RelativeEntry(RelativeExit(n, t), t)
      BY <2>2 DEF RelativeBar, n, t
    <3>2. InPlay(RelativeExit(n, t), t)
      BY <1>2, <1>3, <3>1, InPlayRelativeExit
    <3> QED BY <1>1, <1>2, <3>1, <3>2, InPlayRelativeEntry
  <2> QED BY <2>1, <2>2
<1>5. InPlay(book, now)'
  BY <1>1, <1>4 DEF InPlay, PositionIs, BarTimes
<1> QED BY <1>5 DEF MoneyKept, InPlay

\* The end of the data closes the position at a close of its symbol.
LEMMA EndAdds ==
  ASSUME SourcesKept, LedgerKept, pc = "bars", InPlay(book, now)
  PROVE  Adds(EndOfData(book))
<1> DEFINE b == book
           p == b.position
           last == Max(BarTimes(market, p.symbol))
           bar == given[market].bars[p.symbol][last]
           final == given[market].bars[p.symbol][Max(Timeline) - Minutes.m5]
<1>1. EndOfData(b) =
        IF ~Holds(b) THEN b
        ELSE CASE run.protocol # "V3" -> CloseAt(b, last, bar.close, "END_OF_DATA")
               [] run.protocol = "V3" /\ final # None ->
                    CloseAt(b, Max(Timeline), final.close, "END_OF_DATA")
               [] OTHER -> b
  BY DEF EndOfData
<1>2. Adds(b) /\ (Holds(b) => PositionIs(p))
  BY DEF InPlay
<1>3. given = Given /\ market \in DOMAIN Markets
  BY DEF SourcesKept, FilesSourced
<1>4. ASSUME Holds(b), run.protocol # "V3"
      PROVE  Adds(CloseAt(b, last, bar.close, "END_OF_DATA"))
  <2>1. /\ p.symbol \in Symbols /\ BarTimes(market, p.symbol) # {}
        /\ BarTimes(market, p.symbol) \in SUBSET Times
    BY <1>2, <1>4 DEF PositionIs, BarTimes
  <2>2. last \in BarTimes(market, p.symbol)
    BY <2>1, LastTime
  <2> HIDE DEF last, p
  <2>3. bar # None /\ last \in Times
    BY <2>2 DEF BarTimes
  <2>4. bar \in Bars
    BY <1>3, <2>1, <2>3, GivenBars
  <2> HIDE DEF bar
  <2>5. bar.close \in Int
    BY <2>4, BarIs
  <2> HIDE DEF b
  <2> QED BY <1>2, <1>4, <2>5, AddsClose DEF p
<1>5. ASSUME Holds(b), run.protocol = "V3", final # None
      PROVE  Adds(CloseAt(b, Max(Timeline), final.close, "END_OF_DATA"))
  <2>1. p.symbol \in Symbols /\ p.time \in Timeline
    BY <1>2, <1>5 DEF PositionIs, LedgerKept, Kept, Placed
  <2>2. Timeline \in SUBSET Times
    BY <1>5 DEF Timeline
  <2>3. Max(Timeline) \in Timeline
    BY <2>1, <2>2, LastTime
  <2>4. Max(Timeline) - Minutes.m5 \in Times
    BY <1>5, <2>2, <2>3, SectionBegins
  <2>5. final \in Bars
    BY <1>3, <1>5, <2>1, <2>4, GivenBars
  <2> HIDE DEF final
  <2>6. final.close \in Int
    BY <2>5, BarIs
  <2> HIDE DEF b
  <2> QED BY <1>2, <1>5, <2>6, AddsClose
<1> HIDE DEF b, last, bar, final
<1>6. Adds(EndOfData(b))
  BY <1>1, <1>2, <1>4, <1>5
<1> QED BY <1>6 DEF b

\* Between two replays the account is empty.
LEMMA NothingAdds == Adds(EmptyBook(0))
<1>1. 0 \in Times
  BY ReplayAssumption DEF Times
<1>2. InPlay(EmptyBook(0), 0)
  BY <1>1, EmptyAdds
<1> QED BY <1>2 DEF InPlay

\* Every other step empties the account or leaves it.
LEMMA MoneyKeptStep ==
  ASSUME MoneyKept, SourcesKept, FrozenKept, LedgerKept, [ReplayNext]_replayVars
  PROVE  MoneyKept'
<1>0. Adds(book)
  BY DEF MoneyKept
<1>1. CASE SpotBar \/ RelativeBar
  BY <1>1, BarsAdd
<1>2. CASE FinishReplay
  <2>1. pc = "bars" /\ book' = EndOfData(book) /\ pc' \in {"deliver", "begin"}
    BY <1>2 DEF FinishReplay
  <2>2. Adds(book')
    BY <2>1, EndAdds DEF MoneyKept
  <2> QED BY <2>1, <2>2 DEF MoneyKept
<1>3. CASE BeginReplay
  <2>1. /\ pc = "begin" /\ now' = 0 /\ book' = EmptyBook(Config.capital)
        /\ UNCHANGED <<run, market, given>>
    BY <1>3 DEF BeginReplay
  <2>2. Config.capital \in Int
    <3> DEFINE P == Range(Plans[run.protocol])
    <3>1. PlansLeft /\ run.protocol \in Protocols
      BY <2>1 DEF SourcesKept, LedgerKept, RunIs, Protocols, Late
    <3>2. PICK left \in Seq(P) : left = run.left /\ left # <<>>
      BY <2>1, <3>1 DEF PlansLeft
    <3>3. Head(left) \in P
      <4> HIDE DEF P
      <4> QED BY <3>2
    <3>4. \A c \in P : c.capital \in Int
      BY <3>1, PlansAre
    <3> QED BY <3>2, <3>3, <3>4 DEF Config
  <2>3. 0 \in Times
    BY ReplayAssumption DEF Times
  <2>4. InPlay(book', 0)
    BY <2>1, <2>2, <2>3, EmptyAdds
  <2>5. InPlay(book, now)'
    BY <2>1, <2>4 DEF InPlay, PositionIs, BarTimes
  <2> QED BY <2>5 DEF MoneyKept, InPlay
<1>4. CASE Kill \/ DeliverV1 \/ DeliverV2 \/ DeliverV3
  <2>1. book' = EmptyBook(0) /\ pc' = "idle"
    BY <1>4 DEF Kill, DeliverV1, DeliverV2, DeliverV3, Delivered
  <2>2. Adds(EmptyBook(0))
    BY NothingAdds
  <2> QED BY <2>1, <2>2 DEF MoneyKept
<1>5. CASE \/ Move \/ BinanceCheck \/ StartV1 \/ StartV2 \/ StartV3 \/ WriteMarket \/ Recover
           \/ BeginFreeze \/ EndFreeze \/ Collect \/ Prepare
  <2>1. UNCHANGED book /\ pc' # "bars"
    <3>1. CASE StartV1 \/ StartV2 \/ StartV3
      <4>1. PICK point \in Early : \E r : Launch(point, r)
        BY <3>1 DEF StartV1, StartV2, StartV3, Early
      <4> QED BY <4>1 DEF Launch, Early
    <3>2. CASE Move \/ BinanceCheck \/ WriteMarket \/ Recover \/ BeginFreeze \/ EndFreeze
      BY <3>2 DEF Move, BinanceCheck, WriteMarket, Recover, BeginFreeze, EndFreeze
    <3>3. CASE Collect \/ Prepare
      BY <3>3 DEF Collect, Prepare
    <3> QED BY <1>5, <3>1, <3>2, <3>3
  <2> QED BY <1>0, <2>1 DEF MoneyKept
<1>6. CASE UNCHANGED replayVars
  BY <1>6 DEF replayVars, MoneyKept, InPlay, PositionIs, BarTimes
<1> QED BY <1>1, <1>2, <1>3, <1>4, <1>5, <1>6 DEF ReplayNext

\* The account adds up at first.
LEMMA MoneyKeptInit == ReplayInit => MoneyKept
<1> SUFFICES ASSUME ReplayInit PROVE MoneyKept
  OBVIOUS
<1>1. Adds(EmptyBook(0))
  BY NothingAdds
<1> QED BY <1>1 DEF ReplayInit, MoneyKept

\* The inductive invariant of the accounts of the replays, in numbers.
THEOREM ReplaysKeepMoney == ReplaySpec => [](MoneyKept /\ SourcesKept)
<1> DEFINE J == LedgerKept /\ FrozenKept /\ SourcesKept /\ MoneyKept
<1>1. ReplayInit => J
  BY LedgerKeptInit, FrozenKeptInit, SourcesKeptInit, MoneyKeptInit
<1>2. J /\ [ReplayNext]_replayVars => J'
  BY LedgerKeptStep, FrozenKeptStep, SourcesKeptStep, MoneyKeptStep
<1> QED BY <1>1, <1>2, PTL DEF ReplaySpec

\* For all bars, costs and configurations the equity of a replay is its capital and
\* what its round trips left, each day starting with what those before it left
\* (equity and daily_start of replay_spot and replay_relative_strength).
THEOREM ReplaysAddUp == ReplaySpec => []AccountAddsUp
<1>1. MoneyKept => AccountAddsUp
  BY DEF MoneyKept, Adds, EndedBefore, AccountAddsUp
<1> QED BY <1>1, ReplaysKeepMoney, PTL

\* For all bars, costs and configurations a round trip of V3 that ends at its stop
\* loses, costs included, no more than the budget by which it was sized.
THEOREM ReplaysLoseWithinBudget == ReplaySpec => []StopsLoseWithinBudget
<1>1. MoneyKept => StopsLoseWithinBudget
  BY DEF MoneyKept, Adds, TradeIs, StopsLoseWithinBudget
<1> QED BY <1>1, ReplaysKeepMoney, PTL
=============================================================================
