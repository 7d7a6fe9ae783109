------------------------- MODULE MarketArchiveProofs -------------------------
(***************************************************************************)
(* Proofs about MarketArchive: whatever the day, the window, the page, the *)
(* holes of the exchange and the interruptions, a repair that ends has     *)
(* filled its window and has stored nothing twice.                         *)
(*                                                                         *)
(* The inductive invariant is ArchiveInv: what is still missing lies ahead *)
(* of the repair's cursor, in pages that no part of the history holds yet. *)
(***************************************************************************)
EXTENDS MarketArchive, FiniteSetTheorems, WellFoundedInduction, TLAPS

\* A nonempty set of natural numbers has a least element.
LEMMA LeastElement ==
  ASSUME NEW S \in SUBSET Nat, S # {}
  PROVE  \E x \in S : \A y \in S : x <= y
<1> DEFINE R == {ss \in Nat \X Nat : ss[1] < ss[2]}
<1>1. IsWellFoundedOn(R, Nat)
  BY NatLessThanWellFounded DEF OpToRel
<1> HIDE DEF R
<1>2. PICK x \in S : \A y \in S : ~ (<<y, x>> \in R)
  BY <1>1, WFMin, Zenon
<1>3. ASSUME NEW y \in S PROVE x <= y
  <2>1. x \in Nat /\ y \in Nat
    OBVIOUS
  <2>2. ~ (y < x)
    BY <1>2, <2>1 DEF R
  <2> QED BY <2>1, <2>2
<1> QED BY <1>3

\* Min is what its name says.
LEMMA MinIsLeast ==
  ASSUME NEW S \in SUBSET Nat, S # {}
  PROVE  Min(S) \in S /\ \A y \in S : Min(S) <= y
BY LeastElement DEF Min

\* Max is what its name says, of a bounded set.
LEMMA MaxIsGreatest ==
  ASSUME NEW n \in Nat, NEW S \in SUBSET (0 .. n), S # {}
  PROVE  Max(S) \in S /\ \A y \in S : Max(S) >= y
<1> DEFINE T == {n - x : x \in S}
<1>1. \A x \in S : x \in Int /\ n - x \in Nat
  OBVIOUS
<1>2. T \in SUBSET Nat
  BY <1>1, Zenon
<1>3. T # {}
  BY Zenon
<1>4. PICK t \in T : \A y \in T : t <= y
  BY <1>2, <1>3, LeastElement, Zenon
<1>5. PICK x \in S : t = n - x
  BY Zenon
<1>6. ASSUME NEW y \in S PROVE x >= y
  <2>1. t <= n - y
    BY <1>4, Zenon
  <2> QED BY <1>1, <1>5, <2>1
<1>7. \E z \in S : \A y \in S : z >= y
  BY <1>6, Zenon
<1> QED BY <1>7, Zenon DEF Max

\* The oldest of some candles are a prefix of them, and one at least.
LEMMA OldestIsPrefix ==
  ASSUME NEW S \in SUBSET Opens, NEW n \in Nat \ {0}
  PROVE  /\ Oldest(S, n) \subseteq S
         /\ S # {} => Oldest(S, n) # {}
         /\ \A x \in S, y \in Oldest(S, n) : x <= y => x \in Oldest(S, n)
<1> DEFINE Below(m) == {x \in S : x < m}
<1>1. Minutes \in Nat
  BY ArchiveAssumption
<1>2. IsFiniteSet(S)
  <2>1. IsFiniteSet(0 .. Minutes - 1)
    BY <1>1, FS_Interval
  <2> QED BY <2>1, FS_Subset DEF Opens
<1>3. \A m : IsFiniteSet(Below(m)) /\ Cardinality(Below(m)) \in Nat
  <2>1. \A m : Below(m) \in SUBSET S
    OBVIOUS
  <2> QED BY <1>2, <2>1, FS_Subset, FS_CardinalityType
<1>4. Oldest(S, n) = {m \in S : Cardinality(Below(m)) < n}
  BY DEF Oldest
<1>5. S \in SUBSET Nat /\ \A x \in S : x \in Nat
  BY <1>1 DEF Opens
<1>6. ASSUME S # {} PROVE Oldest(S, n) # {}
  <2>1. PICK x \in S : \A y \in S : x <= y
    BY <1>5, <1>6, LeastElement
  <2>2. Below(x) = {}
    <3>1. \A y \in S : ~ (y < x)
      BY <1>5, <2>1
    <3> QED BY <3>1, Zenon
  <2>3. Cardinality(Below(x)) = 0
    BY <2>2, FS_EmptySet
  <2>4. 0 < n
    OBVIOUS
  <2> HIDE DEF Below
  <2> QED BY <1>4, <2>3, <2>4
<1>7. ASSUME NEW x \in S, NEW y \in Oldest(S, n), x <= y PROVE x \in Oldest(S, n)
  <2>1. y \in S /\ Cardinality(Below(y)) < n
    BY <1>4
  <2>2. Below(x) \in SUBSET Below(y)
    <3>1. \A z \in S : z < x => z < y
      BY <1>5, <1>7, <2>1
    <3> QED BY <3>1, Zenon
  <2>3. Cardinality(Below(x)) <= Cardinality(Below(y))
    BY <1>3, <2>2, FS_Subset
  <2>4. Cardinality(Below(x)) < n
    <3> HIDE DEF Below
    <3> QED BY <1>3, <2>1, <2>3
  <2> HIDE DEF Below
  <2> QED BY <1>4, <2>4
<1>8. Oldest(S, n) \subseteq S
  BY <1>4
<1> QED BY <1>6, <1>7, <1>8

\* What BinanceParquetStore.write adds: at most one part, of rows that it was
\* given, and after it every key that it was given is stored.
LEMMA StoredFacts ==
  ASSUME NEW set, NEW first, NEW rows
  PROVE  /\ parts \subseteq Stored(set, first, rows)
         /\ \A p \in Stored(set, first, rows) \ parts :
              p.set = set /\ p.date = Date(first) /\ p.rows \subseteq rows
         /\ \A p, q \in Stored(set, first, rows) \ parts : p = q
         /\ \A r \in rows : \E p \in Stored(set, first, rows) :
              p.set = set /\ \E q \in p.rows : Key(q) = Key(r)
<1> DEFINE fresh == {r \in rows : \A s \in RowsOf(set, Date(first)) : Key(s) # Key(r)}
           new == [set |-> set, date |-> Date(first), rows |-> fresh]
<1>1. Stored(set, first, rows) = IF fresh = {} THEN parts ELSE parts \union {new}
  BY DEF Stored
<1>2. new.set = set /\ new.date = Date(first) /\ new.rows = fresh /\ fresh \subseteq rows
  OBVIOUS
<1>3. ASSUME NEW r \in rows, r \notin fresh
      PROVE  \E p \in parts : p.set = set /\ \E q \in p.rows : Key(q) = Key(r)
  BY <1>3 DEF RowsOf
<1> HIDE DEF fresh, new
<1> QED BY <1>1, <1>2, <1>3, Zenon

-----------------------------------------------------------------------------
\* The types of the constants, in the form that the provers use.
LEMMA ConstantTypes ==
  /\ Minutes \in Nat \ {0} /\ DayLength \in Nat \ {0} /\ Window \in Nat \ {0}
  /\ Page \in Nat \ {0} /\ Recent \in Nat \ {0}
BY ArchiveAssumption

\* Candles open at natural numbers below Minutes.
LEMMA OpensAreNaturals ==
  Opens \in SUBSET Nat /\ \A m \in Opens : m \in Nat /\ m < Minutes
BY ConstantTypes DEF Opens

\* The types of the parts, which only a write changes.
PartsOK(P) ==
  \A p \in P : /\ p.set \in {"historical_m1", "klines"}
               /\ p.date \in {Date(m) : m \in Opens}
               /\ p.rows \subseteq Rows

\* A write keeps the types of the parts.
LEMMA StoredTypes ==
  ASSUME PartsOK(parts),
         NEW set \in {"historical_m1", "klines"}, NEW first \in Opens,
         NEW rows \in SUBSET Rows
  PROVE  PartsOK(Stored(set, first, rows))
<1>1. ASSUME NEW p \in Stored(set, first, rows), p \notin parts
      PROVE  /\ p.set \in {"historical_m1", "klines"}
             /\ p.date \in {Date(m) : m \in Opens}
             /\ p.rows \subseteq Rows
  <2>1. p.set = set /\ p.date = Date(first) /\ p.rows \subseteq rows
    BY <1>1, StoredFacts, Zenon
  <2> QED BY <2>1, Zenon
<1> QED BY <1>1, Zenon DEF PartsOK

\* What depends on the parts alone stays when they stay.
LEMMA SamePartsSameRows ==
  ASSUME parts' = parts
  PROVE  HistoryOpens' = HistoryOpens /\ Archived' = Archived
BY DEF HistoryOpens, Archived, AllRows

\* The history is part of the archive.
LEMMA HistoryIsArchived ==
  ASSUME HistoryInv
  PROVE  HistoryOpens \subseteq Archived
BY DEF HistoryInv, HistoryOpens, Archived

\* The last of the missing candles.
LEMMA MaxWanted ==
  ASSUME wanted \subseteq Opens, wanted # {}
  PROVE  Max(wanted) \in wanted /\ \A m \in wanted : Max(wanted) >= m
<1>1. Minutes - 1 \in Nat /\ wanted \in SUBSET (0 .. Minutes - 1)
  BY ConstantTypes DEF Opens
<1> QED BY <1>1, MaxIsGreatest

\* The end of a range lies past its first candle and inside the minutes.
LEMMA RangeLies ==
  ASSUME NEW a \in Nat, NEW last \in Nat, last < Minutes, a <= last
  PROVE  /\ Min({a + Page, last + 1}) \in Nat
         /\ a <= Min({a + Page, last + 1}) /\ Min({a + Page, last + 1}) <= Minutes
<1>1. a + Page \in Nat /\ last + 1 \in Nat /\ a <= a + Page /\ a <= last + 1 /\ last + 1 <= Minutes
  BY ConstantTypes
<1>2. {a + Page, last + 1} \in SUBSET Nat
  BY <1>1, Zenon
<1>3. /\ Min({a + Page, last + 1}) \in {a + Page, last + 1}
      /\ Min({a + Page, last + 1}) <= last + 1
  BY <1>2, MinIsLeast, Zenon
<1>4. CASE Min({a + Page, last + 1}) = a + Page
  BY <1>1, <1>3, <1>4, ConstantTypes
<1>5. CASE Min({a + Page, last + 1}) = last + 1
  BY <1>1, <1>5, ConstantTypes
<1> QED BY <1>3, <1>4, <1>5

-----------------------------------------------------------------------------
\* The first step of every repair: the window, what it misses, the first range.
LEMMA BeginRepairKeeps ==
  ASSUME ArchiveInv, BeginRepair
  PROVE  ArchiveInv'
<1> USE DEF ArchiveInv
<1>1. /\ pc = "idle" /\ observed' = now /\ wanted' = MissingIn(from', end')
      /\ now' = now /\ holes' = holes /\ parts' = parts /\ batch' = batch
  BY DEF BeginRepair
<1>2. from' \in 0 .. Minutes /\ end' \in 0 .. Minutes /\ end' <= observed' /\ observed' <= now
  <2>1. PICK target \in {t \in 0 .. now : now - t <= 1} :
          /\ end' = Min({target, observed'})
          /\ from' = IF target > Window THEN target - Window ELSE 0
    BY DEF BeginRepair
  <2>2. now \in 0 .. Minutes /\ target \in Nat /\ target <= now
    BY <2>1 DEF TypeOK
  <2>3. {target, observed'} \in SUBSET Nat
    BY <1>1, <2>2, ConstantTypes
  <2>4. end' \in {target, observed'} /\ end' <= observed'
    BY <2>1, <2>3, MinIsLeast
  <2> QED BY <1>1, <2>1, <2>2, <2>4, ConstantTypes
<1>3. wanted' \subseteq Opens /\ wanted' \subseteq Between(from', end')
  BY <1>1 DEF MissingIn, Between
<1>4. HistoryOpens' = HistoryOpens /\ Archived' = Archived
  BY <1>1, SamePartsSameRows
<1>5. HistoryInv' /\ HistoryHasNoDuplicates'
  BY <1>1 DEF HistoryInv, HistoryHasNoDuplicates, AllRows
<1>6. \A m \in wanted' : m \notin HistoryOpens
  BY <1>1, HistoryIsArchived DEF MissingIn
<1>7. \A m \in Between(from', end') \ holes' : m \in Archived \/ m \in wanted'
  BY <1>1 DEF MissingIn
<1>8. CASE wanted' = {}
  <2>1. pc' = "repaired" /\ cursor' = cursor /\ limit' = limit
    BY <1>8 DEF BeginRepair
  <2>2. TypeOK'
    BY <1>1, <1>2, <1>3, <2>1 DEF TypeOK
  <2> QED BY <1>1, <1>2, <1>3, <1>4, <1>5, <1>7, <1>8, <2>1, <2>2
          DEF HeldInv, PageInv, AheadInv, ProgressInv
<1>9. CASE wanted' # {}
  <2>1. pc' = "range" /\ cursor' = Min(wanted') /\ limit' = EndOfRange(cursor)'
    BY <1>9 DEF BeginRepair
  <2>2. cursor' \in wanted' /\ \A m \in wanted' : cursor' <= m
    BY <1>3, <1>9, <2>1, MinIsLeast, OpensAreNaturals
  <2>3. limit' \in Nat /\ cursor' <= limit' /\ limit' <= Minutes
    <3>1. Max(wanted') \in wanted' /\ \A m \in wanted' : Max(wanted') >= m
      <4>1. Minutes - 1 \in Nat /\ wanted' \in SUBSET (0 .. Minutes - 1)
        BY <1>3, ConstantTypes DEF Opens
      <4> QED BY <1>9, <4>1, MaxIsGreatest
    <3>2. cursor' \in Nat /\ Max(wanted') \in Nat /\ Max(wanted') < Minutes /\ cursor' <= Max(wanted')
      BY <1>3, <2>2, <3>1, OpensAreNaturals
    <3>3. limit' = Min({cursor' + Page, Max(wanted') + 1})
      BY <2>1 DEF EndOfRange
    <3> QED BY <3>2, <3>3, RangeLies, Zenon
  <2>4. cursor' \in 0 .. Minutes /\ limit' \in 0 .. Minutes
    BY <1>3, <2>2, <2>3, OpensAreNaturals, ConstantTypes
  <2>5. TypeOK'
    BY <1>1, <1>2, <1>3, <2>1, <2>4 DEF TypeOK
  <2>6. HeldInv' /\ PageInv'
    BY <1>1, <1>2, <1>3, <1>9, <2>1, <2>3 DEF HeldInv, PageInv
  <2>7. AheadInv'
    BY <1>4, <1>6, <2>1 DEF AheadInv
  <2>8. ProgressInv'
    BY <1>4, <1>7, <2>1, <2>2 DEF ProgressInv
  <2> QED BY <1>5, <2>5, <2>6, <2>7, <2>8
<1> QED BY <1>8, <1>9

\* A page: its candles that were missing, and the cursor behind the last of them.
LEMMA FetchPageKeeps ==
  ASSUME ArchiveInv, FetchPage
  PROVE  ArchiveInv'
<1> USE DEF ArchiveInv
<1> DEFINE S == Served \intersect Between(cursor, limit)
           payload == Oldest(S, Min({Page, limit - cursor}))
<1>1. /\ pc = "range" /\ cursor < limit
      /\ cursor' = AfterPage(payload)
      /\ batch' = {[open |-> m, final |-> Final(m)] : m \in {x \in payload : Wanted(x)}}
      /\ pc' = IF payload = {} THEN "range" ELSE "page"
      /\ now' = now /\ holes' = holes /\ parts' = parts /\ from' = from /\ end' = end
      /\ observed' = observed /\ wanted' = wanted /\ limit' = limit
  BY DEF FetchPage
<1>2. /\ now \in Nat /\ cursor \in Nat /\ limit \in Nat /\ end \in Nat /\ observed \in Nat
      /\ limit <= Minutes /\ end <= observed /\ observed <= now
  BY <1>1, ConstantTypes DEF TypeOK, HeldInv
<1>3. wanted # {} /\ wanted \subseteq Between(from, end) /\ wanted \subseteq Opens
  BY <1>1 DEF HeldInv, TypeOK
<1>4. S \in SUBSET Opens /\ \A m \in S : m \in Nat /\ cursor <= m /\ m < limit
  BY OpensAreNaturals DEF Between
<1>5. Min({Page, limit - cursor}) \in Nat \ {0}
  <2>1. {Page, limit - cursor} \in SUBSET Nat /\ limit - cursor # 0
    BY <1>1, <1>2, ConstantTypes
  <2> QED BY <2>1, MinIsLeast, ConstantTypes
<1>6. /\ payload \subseteq S
      /\ S # {} => payload # {}
      /\ \A x \in S, y \in payload : x <= y => x \in payload
  BY <1>4, <1>5, OldestIsPrefix
<1> HIDE DEF S, payload
<1>7. HistoryOpens' = HistoryOpens /\ Archived' = Archived
  BY <1>1, SamePartsSameRows
<1>8. HistoryInv' /\ HistoryHasNoDuplicates'
  BY <1>1 DEF HistoryInv, HistoryHasNoDuplicates, AllRows
<1>9. \A m \in Between(from, end) \ holes : cursor <= m /\ m < limit => m \in S
  BY <1>2, OpensAreNaturals DEF S, Served, Between
<1>10. \A m : Wanted(m) <=> m \in wanted /\ m + 1 <= observed
  BY DEF Wanted
<1>11. \A m \in wanted : m \in Nat /\ m + 1 <= observed
  BY <1>2, <1>3, OpensAreNaturals DEF Between
<1>12. batch' \subseteq [open : Opens, final : BOOLEAN]
  <2>1. \A m : Final(m) \in BOOLEAN
    BY DEF Final
  <2>2. \A m \in payload : [open |-> m, final |-> Final(m)] \in [open : Opens, final : BOOLEAN]
    BY <1>4, <1>6, <2>1
  <2> QED BY <1>1, <2>2, Zenon
<1>13. \A r \in batch' : r.open \in payload /\ r.open \in wanted
  BY <1>1, <1>10
<1>14. ASSUME NEW m \in payload, m \in wanted PROVE \E r \in batch' : r.open = m
  <2>1. [open |-> m, final |-> Final(m)] \in batch'
    BY <1>1, <1>10, <1>11, <1>14, Zenon
  <2>2. [open |-> m, final |-> Final(m)].open = m
    OBVIOUS
  <2> QED BY <2>1, <2>2, Zenon
<1>15. CASE payload = {}
  <2>1. cursor' = limit /\ pc' = "range" /\ batch' = {}
    BY <1>1, <1>13, <1>15 DEF AfterPage
  <2>2. TypeOK'
    BY <1>1, <2>1 DEF TypeOK
  <2>3. HeldInv' /\ PageInv'
    BY <1>1, <1>2, <2>1 DEF HeldInv, PageInv
  <2>4. AheadInv'
    BY <1>1, <1>2, <1>7, <1>11, <2>1 DEF AheadInv
  <2>5. ProgressInv'
    <3>1. \A m \in Between(from, end) \ holes : ~ (cursor <= m /\ m < limit)
      BY <1>6, <1>9, <1>15
    <3>2. \A m \in wanted : ~ (cursor <= m /\ m < limit) => (cursor <= m => limit <= m)
      BY <1>2, <1>11
    <3>3. \A m \in Between(from, end) \ holes : m \in Archived \/ (m \in wanted /\ cursor <= m)
      BY <1>1 DEF ProgressInv
    <3> QED BY <1>1, <1>7, <2>1, <3>1, <3>2, <3>3 DEF ProgressInv, Between
  <2> QED BY <1>8, <2>2, <2>3, <2>4, <2>5
<1>16. CASE payload # {}
  <2> DEFINE last == Max(payload)
  <2>1. cursor' = last + 1 /\ pc' = "page"
    BY <1>1, <1>16 DEF AfterPage
  <2>2. last \in payload /\ \A m \in payload : last >= m
    <3>1. Minutes - 1 \in Nat /\ payload \in SUBSET (0 .. Minutes - 1)
      BY <1>4, <1>6, ConstantTypes DEF Opens
    <3> QED BY <1>16, <3>1, MaxIsGreatest
  <2> HIDE DEF last
  <2>3. last \in Nat /\ cursor <= last /\ last < limit /\ cursor <= cursor' /\ cursor' <= limit /\ cursor' \in Nat
    BY <1>2, <1>4, <1>6, <2>1, <2>2
  <2>4. TypeOK'
    BY <1>1, <1>2, <1>12, <2>1, <2>3, ConstantTypes DEF TypeOK
  <2>5. HeldInv'
    BY <1>1, <1>2, <1>3, <1>12, <2>1, <2>3 DEF HeldInv, Between
  <2>6. PageInv'
    <3>1. \A r \in batch' : r.open \in Nat /\ cursor <= r.open /\ r.open <= last
      BY <1>4, <1>6, <1>13, <2>2, <2>3
    <3>2. \A r \in batch' : r.open < cursor'
      BY <2>1, <2>3, <3>1
    <3>3. \A r \in batch' : r.open \notin HistoryOpens
      BY <1>1, <1>13, <3>1 DEF AheadInv
    <3> QED BY <1>1, <1>7, <1>13, <2>1, <3>2, <3>3 DEF PageInv
  <2>7. AheadInv'
    <3>1. \A m \in wanted : cursor' <= m => cursor <= m
      BY <1>2, <1>11, <2>3
    <3> QED BY <1>1, <1>7, <2>1, <3>1 DEF AheadInv
  <2>8. ProgressInv'
    <3>1. ASSUME NEW m \in Between(from, end) \ holes, m \notin Archived, ~ (cursor' <= m)
          PROVE  \E r \in batch' : r.open = m
      <4>1. m \in wanted /\ cursor <= m
        BY <1>1, <3>1 DEF ProgressInv
      <4>2. m \in Nat /\ m <= last /\ m < limit
        BY <1>2, <1>11, <2>1, <2>3, <3>1, <4>1
      <4>3. m \in payload
        BY <1>6, <1>9, <2>2, <4>1, <4>2
      <4> QED BY <1>14, <4>1, <4>3
    <3>2. \A m \in Between(from, end) \ holes : m \in Archived \/ m \in wanted
      BY <1>1 DEF ProgressInv
    <3> QED BY <1>1, <1>7, <2>1, <3>1, <3>2 DEF ProgressInv, Between
  <2> QED BY <1>8, <2>4, <2>5, <2>6, <2>7, <2>8
<1> QED BY <1>15, <1>16

\* The page is stored: its candles have closed by now, and none was in the history.
LEMMA StorePageKeeps ==
  ASSUME ArchiveInv, StorePage
  PROVE  ArchiveInv'
<1> USE DEF ArchiveInv
<1> DEFINE rows == {r \in Normalized(batch) : r.closed}
           first == Min({r.open : r \in batch})
           after == Stored("historical_m1", first, rows)
<1>1. /\ pc = "page" /\ pc' = "range" /\ batch' = {}
      /\ parts' = IF batch = {} THEN parts ELSE after
      /\ now' = now /\ holes' = holes /\ from' = from /\ end' = end
      /\ observed' = observed /\ wanted' = wanted /\ cursor' = cursor /\ limit' = limit
  BY DEF StorePage, Goto, repair
<1>2. /\ now \in Nat /\ cursor \in Nat /\ end \in Nat /\ observed \in Nat
      /\ end <= observed /\ observed <= now
  BY <1>1, ConstantTypes DEF TypeOK, HeldInv
<1>3. wanted # {} /\ wanted \subseteq Between(from, end) /\ wanted \subseteq Opens
  BY <1>1 DEF HeldInv, TypeOK
<1>4. \A r \in batch : /\ r \in [open : Opens, final : BOOLEAN]
                       /\ r.open \in wanted /\ r.open < cursor /\ r.open \notin HistoryOpens
  BY <1>1 DEF HeldInv, PageInv
<1>5. \A m \in wanted : m \in Nat /\ Final(m)
  BY <1>2, <1>3, OpensAreNaturals DEF Between, Final
<1>6. Normalized(batch) \subseteq Rows
  <2>1. ASSUME NEW r \in batch
        PROVE  [open |-> r.open, closed |-> Final(r.open), final |-> r.final] \in Rows
    <3>1. r.open \in Opens /\ r.final \in BOOLEAN /\ Final(r.open) \in BOOLEAN
      BY <1>4 DEF Final
    <3> QED BY <3>1 DEF Rows
  <2> QED BY <2>1, Zenon DEF Normalized
<1>7. /\ rows \subseteq Rows
      /\ \A r \in rows : r.closed /\ \E s \in batch : r.open = s.open
  <2>1. \A r \in Normalized(batch) : \E s \in batch : r.open = s.open
    BY DEF Normalized
  <2> QED BY <1>6, <2>1, Zenon
<1>8. ASSUME NEW s \in batch PROVE \E r \in rows : r.open = s.open
  <2> DEFINE r == [open |-> s.open, closed |-> Final(s.open), final |-> s.final]
  <2>1. r \in Normalized(batch)
    BY Zenon DEF Normalized
  <2>2. r.open = s.open /\ r.closed
    BY <1>4, <1>5
  <2> QED BY <2>1, <2>2, Zenon
<1>9. /\ parts \subseteq parts'
      /\ \A p \in parts' \ parts : p.set = "historical_m1" /\ p.rows \subseteq rows
      /\ \A p, q \in parts' \ parts : p = q
      /\ \A r \in rows : \E p \in parts' : p.set = "historical_m1" /\ \E q \in p.rows : Key(q) = Key(r)
  <2>1. CASE batch = {}
    <3>1. parts' = parts /\ rows = {}
      BY <1>1, <1>7, <2>1
    <3> HIDE DEF rows
    <3> QED BY <3>1
  <2>2. CASE batch # {}
    <3>1. parts' = Stored("historical_m1", first, rows)
      BY <1>1, <2>2
    <3> HIDE DEF rows, first
    <3> HIDE DEF after
    <3>2. /\ parts \subseteq Stored("historical_m1", first, rows)
          /\ \A r \in rows : \E p \in Stored("historical_m1", first, rows) :
               p.set = "historical_m1" /\ \E q \in p.rows : Key(q) = Key(r)
      BY StoredFacts
    <3>3. \A p \in Stored("historical_m1", first, rows) \ parts :
             p.set = "historical_m1" /\ p.rows \subseteq rows
      BY StoredFacts
    <3>4. \A p, q \in Stored("historical_m1", first, rows) \ parts : p = q
      BY StoredFacts
    <3> QED BY <3>1, <3>2, <3>3, <3>4
  <2> QED BY <2>1, <2>2
<1>10. PartsOK(parts) => PartsOK(parts')
  <2>1. CASE batch = {}
    BY <1>1, <2>1
  <2>2. CASE batch # {}
    <3>1. {r.open : r \in batch} \subseteq Opens /\ {r.open : r \in batch} # {}
      BY <1>3, <1>4, <2>2
    <3>2. first \in Opens
      BY <3>1, MinIsLeast, OpensAreNaturals
    <3>3. parts' = after
      BY <1>1, <2>2
    <3> HIDE DEF rows, first
    <3> QED BY <1>7, <3>2, <3>3, StoredTypes, Zenon
  <2> QED BY <2>1, <2>2
<1> HIDE DEF rows, first, after
<1>11. TypeOK'
  BY <1>1, <1>10 DEF TypeOK, PartsOK
<1>12. HistoryInv'
  BY <1>7, <1>9 DEF HistoryInv, AllRows
<1>13. ASSUME NEW m, m \in HistoryOpens', m \notin HistoryOpens
       PROVE  \E s \in batch : m = s.open
  BY <1>7, <1>9, <1>13 DEF HistoryOpens, AllRows
<1>14. \A m \in Archived : m \in Archived'
  BY <1>9 DEF Archived, AllRows
<1>15. ASSUME NEW s \in batch PROVE s.open \in Archived'
  <2>1. PICK r \in rows : r.open = s.open
    BY <1>8
  <2>2. PICK p \in parts' : p.set = "historical_m1" /\ \E q \in p.rows : Key(q) = Key(r)
    BY <1>9
  <2>3. PICK q \in p.rows : Key(q) = Key(r)
    BY <2>2
  <2>4. q.open = s.open /\ q.closed = r.closed /\ r.closed
    BY <1>7, <2>1, <2>3 DEF Key
  <2> QED BY <2>2, <2>4 DEF Archived, AllRows
<1>16. HistoryHasNoDuplicates'
  <2>1. SUFFICES ASSUME NEW p \in parts', p.set = "historical_m1",
                        NEW q \in parts', q.set = "historical_m1", p # q,
                        NEW r \in p.rows, NEW s \in q.rows, r.open = s.open
                 PROVE  FALSE
    BY DEF HistoryHasNoDuplicates
  <2>2. CASE p \in parts /\ q \in parts
    BY <2>1, <2>2 DEF HistoryHasNoDuplicates
  <2>3. ASSUME NEW a \in parts, NEW b \in parts' \ parts, a.set = "historical_m1",
               NEW x \in a.rows, NEW y \in b.rows, x.open = y.open
        PROVE  FALSE
    <3>1. x.open \in HistoryOpens
      BY <2>3 DEF HistoryOpens, AllRows
    <3>2. y \in rows
      BY <1>9
    <3> QED BY <1>4, <1>7, <2>3, <3>1, <3>2
  <2>4. CASE p \in parts /\ q \notin parts
    BY <2>1, <2>3, <2>4
  <2>5. CASE p \notin parts /\ q \in parts
    BY <2>1, <2>3, <2>5
  <2>6. CASE p \notin parts /\ q \notin parts
    BY <1>9, <2>1, <2>6
  <2> QED BY <2>2, <2>4, <2>5, <2>6
<1>17. HeldInv' /\ PageInv'
  BY <1>1 DEF HeldInv, PageInv, Between
<1>18. AheadInv'
  <2>1. \A m \in wanted : cursor <= m => m \notin HistoryOpens
    BY <1>1 DEF AheadInv
  <2>2. \A m \in wanted, s \in batch : cursor <= m => m # s.open
    BY <1>2, <1>4, <1>5
  <2> QED BY <1>1, <1>13, <2>1, <2>2 DEF AheadInv
<1>19. ProgressInv'
  <2>1. \A m \in Between(from, end) \ holes :
          \/ m \in Archived
          \/ \E r \in batch : r.open = m
          \/ m \in wanted /\ cursor <= m
    BY <1>1 DEF ProgressInv
  <2> QED BY <1>1, <1>14, <1>15, <2>1 DEF ProgressInv, Between
<1> QED BY <1>11, <1>12, <1>16, <1>17, <1>18, <1>19

\* The next range begins where this one ends; after the last, nothing is ahead.
LEMMA NextRangeKeeps ==
  ASSUME ArchiveInv, NextRange
  PROVE  ArchiveInv'
<1> USE DEF ArchiveInv
<1>1. /\ pc = "range" /\ cursor >= limit
      /\ IF limit > Max(wanted)
         THEN pc' = "repaired" /\ cursor' = cursor /\ limit' = limit
         ELSE cursor' = limit /\ limit' = EndOfRange(limit) /\ pc' = pc
      /\ now' = now /\ holes' = holes /\ parts' = parts /\ from' = from /\ end' = end
      /\ observed' = observed /\ wanted' = wanted /\ batch' = batch
  BY DEF NextRange
<1>2. cursor \in Nat /\ limit \in Nat /\ cursor = limit
  BY <1>1, ConstantTypes DEF TypeOK, HeldInv
<1>3. wanted # {} /\ wanted \subseteq Opens /\ wanted \subseteq Between(from, end)
      /\ end <= observed /\ observed <= now
  BY <1>1 DEF HeldInv, TypeOK
<1>4. Max(wanted) \in Nat /\ \A m \in wanted : m \in Nat /\ Max(wanted) >= m
  BY <1>3, MaxWanted, OpensAreNaturals
<1>5. HistoryOpens' = HistoryOpens /\ Archived' = Archived
  BY <1>1, SamePartsSameRows
<1>6. HistoryInv' /\ HistoryHasNoDuplicates'
  BY <1>1 DEF HistoryInv, HistoryHasNoDuplicates, AllRows
<1>7. \A m \in Between(from, end) \ holes : m \in Archived \/ (m \in wanted /\ cursor <= m)
  BY <1>1 DEF ProgressInv
<1>8. CASE limit > Max(wanted)
  <2>1. pc' = "repaired" /\ cursor' = cursor /\ limit' = limit
    BY <1>1, <1>8
  <2>2. TypeOK' /\ HeldInv' /\ PageInv' /\ AheadInv'
    BY <1>1, <1>3, <2>1 DEF TypeOK, HeldInv, PageInv, AheadInv
  <2>3. \A m \in wanted : ~ (cursor <= m)
    BY <1>2, <1>4, <1>8
  <2>4. ProgressInv'
    BY <1>1, <1>5, <1>7, <2>1, <2>3 DEF ProgressInv, Between
  <2> QED BY <1>6, <2>2, <2>4
<1>9. CASE ~ (limit > Max(wanted))
  <2>1. pc' = "range" /\ cursor' = cursor /\ limit' = EndOfRange(limit)
    BY <1>1, <1>2, <1>9
  <2>2. limit' \in Nat /\ cursor' <= limit' /\ limit' <= Minutes
    <3>1. Max(wanted) < Minutes /\ limit <= Max(wanted)
      BY <1>2, <1>3, <1>4, <1>9, MaxWanted, OpensAreNaturals
    <3>2. limit' = Min({limit + Page, Max(wanted) + 1}) /\ cursor' = limit
      BY <2>1, <1>1, <1>9 DEF EndOfRange
    <3> QED BY <1>2, <1>4, <3>1, <3>2, RangeLies, Zenon
  <2>3. TypeOK'
    BY <1>1, <2>1, <2>2, ConstantTypes DEF TypeOK
  <2>4. HeldInv' /\ PageInv'
    BY <1>1, <1>3, <2>1, <2>2 DEF HeldInv, PageInv, Between
  <2>5. AheadInv' /\ ProgressInv'
    BY <1>1, <1>5, <1>7, <2>1 DEF AheadInv, ProgressInv, Between
  <2> QED BY <1>6, <2>3, <2>4, <2>5
<1> QED BY <1>8, <1>9

\* The end of a cycle, normal or not, keeps what is stored and nothing else.
LEMMA EndKeeps ==
  ASSUME ArchiveInv, Decide \/ Fail
  PROVE  ArchiveInv'
<1> USE DEF ArchiveInv
<1>1. /\ pc' \in {"collect", "idle"} /\ parts' = parts /\ now' = now /\ holes' = holes
      /\ from' = 0 /\ end' = 0 /\ observed' = 0 /\ wanted' = {} /\ cursor' = 0 /\ limit' = 0
      /\ batch' = {}
  BY DEF Decide, Fail, Forget
<1>2. HistoryInv' /\ HistoryHasNoDuplicates'
  BY <1>1 DEF HistoryInv, HistoryHasNoDuplicates, AllRows
<1>3. TypeOK'
  BY <1>1, ConstantTypes DEF TypeOK
<1>4. HeldInv' /\ PageInv' /\ AheadInv' /\ ProgressInv'
  BY <1>1 DEF HeldInv, PageInv, AheadInv, ProgressInv
<1> QED BY <1>2, <1>3, <1>4

\* The candles that a collection fetches and normalizes are rows.
LEMMA FetchRecentKeeps ==
  ASSUME ArchiveInv, FetchRecent \/ NormalizeRecent
  PROVE  ArchiveInv'
<1> USE DEF ArchiveInv
<1>1. /\ parts' = parts /\ now' = now /\ holes' = holes /\ from' = from /\ end' = end
      /\ wanted' = wanted /\ cursor' = cursor /\ limit' = limit
      /\ observed' \in {observed, now}
      /\ pc' \in {"fetched", "stream"}
  BY DEF FetchRecent, NormalizeRecent, Goto, repair
<1>2. HistoryInv' /\ HistoryHasNoDuplicates'
  BY <1>1 DEF HistoryInv, HistoryHasNoDuplicates, AllRows
<1>3. \A m : Final(m) \in BOOLEAN
  BY DEF Final
<1>4. /\ pc' = "fetched" => batch' \subseteq [open : Opens, final : BOOLEAN]
      /\ pc' = "stream" => batch' \subseteq Rows
  <2>1. CASE FetchRecent
    <3>1. pc' = "fetched" /\ batch' = {[open |-> m, final |-> Final(m)] : m \in Newest(Served, Recent)}
      BY <2>1 DEF FetchRecent, Goto
    <3>2. \A m \in Newest(Served, Recent) : [open |-> m, final |-> Final(m)] \in [open : Opens, final : BOOLEAN]
      BY <1>3 DEF Newest, Served
    <3> QED BY <3>1, <3>2
  <2>2. CASE NormalizeRecent
    <3>1. pc = "fetched" /\ pc' = "stream" /\ batch' = Normalized(batch)
      BY <2>2 DEF NormalizeRecent, Goto
    <3>2. \A r \in batch : [open |-> r.open, closed |-> Final(r.open), final |-> r.final] \in Rows
      BY <1>3, <3>1 DEF HeldInv, Rows
    <3>3. batch' \subseteq Rows
      BY <3>1, <3>2, Zenon DEF Normalized
    <3> QED BY <3>1, <3>3
  <2> QED BY <2>1, <2>2
<1>5. TypeOK'
  BY <1>1, <1>4 DEF TypeOK
<1>6. HeldInv' /\ PageInv' /\ AheadInv' /\ ProgressInv'
  BY <1>1, <1>4 DEF HeldInv, PageInv, AheadInv, ProgressInv
<1> QED BY <1>2, <1>5, <1>6

\* A collection stores rows of the live dataset only.
LEMMA StoreBatchKeeps ==
  ASSUME ArchiveInv, StoreBatch
  PROVE  ArchiveInv'
<1> USE DEF ArchiveInv
<1>1. /\ pc = "stream" /\ pc' = "idle" /\ now' = now /\ holes' = holes
      /\ from' = 0 /\ end' = 0 /\ observed' = 0 /\ wanted' = {} /\ cursor' = 0 /\ limit' = 0
      /\ batch' = {}
  BY DEF StoreBatch, Goto, Forget
<1>2. PICK heard \in SUBSET Streamed :
        parts' = IF batch = {}
                 THEN (IF heard = {} THEN parts
                       ELSE Stored("klines", Min({r.open : r \in heard}), heard))
                 ELSE Stored("klines", Min({r.open : r \in batch}), FirstWins(batch, heard))
  BY DEF StoreBatch
<1>3. batch \subseteq Rows
  BY <1>1 DEF HeldInv
<1>4. heard \subseteq Rows
  <2>1. \A m \in Opens : [open |-> m, closed |-> TRUE, final |-> TRUE] \in Rows
    BY DEF Rows
  <2>2. Streamed \subseteq Rows
    BY <2>1, Zenon DEF Streamed, Served
  <2> QED BY <2>2
<1>5. \A r \in Rows : r.open \in Opens
  BY DEF Rows
<1>6. ASSUME NEW some \in SUBSET Rows, some # {} PROVE Min({r.open : r \in some}) \in Opens
  <2>1. {r.open : r \in some} \in SUBSET Opens /\ {r.open : r \in some} # {}
    BY <1>5, <1>6
  <2> QED BY <2>1, MinIsLeast, OpensAreNaturals
<1>7. FirstWins(batch, heard) \in SUBSET Rows
  BY <1>3, <1>4 DEF FirstWins
<1>8. parts' = parts \/ \E first \in Opens, rows \in SUBSET Rows : parts' = Stored("klines", first, rows)
  BY <1>2, <1>3, <1>4, <1>6, <1>7, Zenon
<1>9. PartsOK(parts) => PartsOK(parts')
  BY <1>8, StoredTypes, Zenon
<1>10. /\ parts \subseteq parts'
       /\ \A p \in parts' \ parts : p.set = "klines"
  BY <1>8, StoredFacts, Zenon
<1>11. TypeOK'
  BY <1>1, <1>9, ConstantTypes DEF TypeOK, PartsOK
<1>12. \A p \in parts' : p.set = "historical_m1" => p \in parts
  BY <1>10
<1>13. HistoryInv' /\ HistoryHasNoDuplicates'
  BY <1>12 DEF HistoryInv, HistoryHasNoDuplicates, AllRows
<1>14. HeldInv' /\ PageInv' /\ AheadInv' /\ ProgressInv'
  BY <1>1 DEF HeldInv, PageInv, AheadInv, ProgressInv
<1> QED BY <1>11, <1>13, <1>14

\* Time passes.
LEMMA TickKeeps ==
  ASSUME ArchiveInv, Tick
  PROVE  ArchiveInv'
<1> USE DEF ArchiveInv
<1>1. /\ now < Minutes /\ now' = now + 1 /\ holes' = holes /\ parts' = parts /\ pc' = pc
      /\ from' = from /\ end' = end /\ observed' = observed /\ wanted' = wanted
      /\ cursor' = cursor /\ limit' = limit /\ batch' = batch
  BY DEF Tick, repair
<1>2. HistoryOpens' = HistoryOpens /\ Archived' = Archived
  BY <1>1, SamePartsSameRows
<1>3. HistoryInv' /\ HistoryHasNoDuplicates'
  BY <1>1 DEF HistoryInv, HistoryHasNoDuplicates, AllRows
<1>4. TypeOK'
  BY <1>1, ConstantTypes DEF TypeOK
<1>5. HeldInv'
  BY <1>1, ConstantTypes DEF HeldInv, TypeOK, Between
<1>6. PageInv' /\ AheadInv' /\ ProgressInv'
  BY <1>1, <1>2 DEF PageInv, AheadInv, ProgressInv, Between
<1> QED BY <1>3, <1>4, <1>5, <1>6

-----------------------------------------------------------------------------
\* The archive always satisfies the inductive invariant, for any lengths of day,
\* window and page, any holes of the exchange and any interruptions.
THEOREM ArchiveInvariant == Spec => []ArchiveInv
<1>1. ASSUME Init PROVE ArchiveInv
  <2>1. TypeOK
    BY <1>1, ConstantTypes, ArchiveAssumption DEF Init, TypeOK, Opens
  <2>2. HistoryInv /\ HistoryHasNoDuplicates
    BY <1>1 DEF Init, HistoryInv, HistoryHasNoDuplicates, AllRows
  <2>3. HeldInv /\ PageInv /\ AheadInv /\ ProgressInv
    BY <1>1 DEF Init, HeldInv, PageInv, AheadInv, ProgressInv
  <2> QED BY <2>1, <2>2, <2>3 DEF ArchiveInv
<1>2. ASSUME ArchiveInv, [Next]_vars PROVE ArchiveInv'
  <2>1. CASE Tick
    BY <1>2, <2>1, TickKeeps
  <2>2. CASE BeginRepair
    BY <1>2, <2>2, BeginRepairKeeps
  <2>3. CASE FetchPage
    BY <1>2, <2>3, FetchPageKeeps
  <2>4. CASE StorePage
    BY <1>2, <2>4, StorePageKeeps
  <2>5. CASE NextRange
    BY <1>2, <2>5, NextRangeKeeps
  <2>6. CASE Decide \/ Fail
    BY <1>2, <2>6, EndKeeps
  <2>7. CASE FetchRecent \/ NormalizeRecent
    BY <1>2, <2>7, FetchRecentKeeps
  <2>8. CASE StoreBatch
    BY <1>2, <2>8, StoreBatchKeeps
  <2>9. CASE UNCHANGED vars
    BY <1>2, <2>9
       DEF vars, repair, ArchiveInv, TypeOK, HistoryInv, HeldInv, PageInv, AheadInv, ProgressInv,
           HistoryHasNoDuplicates, HistoryOpens, Archived, AllRows, Between
  <2> QED
    BY <1>2, <2>1, <2>2, <2>3, <2>4, <2>5, <2>6, <2>7, <2>8, <2>9 DEF Next, Repair, Collect
<1> QED BY <1>1, <1>2, PTL DEF Spec

\* A candle is in the repaired history once, whatever the pages and the days
\* that they span and wherever repairs were interrupted.
THEOREM HistoryStaysUnique == Spec => []HistoryHasNoDuplicates
<1>1. ArchiveInv => HistoryHasNoDuplicates
  BY DEF ArchiveInv
<1> QED BY <1>1, ArchiveInvariant, PTL

\* When a repair has reached its end, every minute of its window that the
\* exchange has can be loaded.
THEOREM RepairsComplete == Spec => []RepairCompletes
<1>1. ASSUME ArchiveInv PROVE RepairCompletes
  <2>1. SUFFICES ASSUME pc = "repaired", NEW m \in Between(from, end) \ holes
                 PROVE  Candidates(m) # {}
    BY DEF RepairCompletes
  <2>2. m \in Archived
    BY <1>1, <2>1 DEF ArchiveInv, ProgressInv
  <2>3. PICK r \in AllRows("historical_m1") \union AllRows("klines") : r.closed /\ r.open = m
    BY <2>2 DEF Archived
  <2>4. r \in ClosedRows("historical_m1", m) \/ r \in ClosedRows("klines", m)
    BY <2>3 DEF ClosedRows
  <2> QED BY <2>4 DEF Candidates
<1> QED BY <1>1, ArchiveInvariant, PTL
=============================================================================
