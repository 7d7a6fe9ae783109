------------------------- MODULE PaperLedgerProofs -------------------------
(***************************************************************************)
(* The promises of PaperLedger hold for every cool-down, day length, entry *)
(* limit and horizon.  What an entry, an exit and the clock do to a sound  *)
(* ledger is stated of the value, so that the proofs of the replays, which *)
(* do several of them in one step, cite the same lemmas.                   *)
(***************************************************************************)
EXTENDS PaperLedger, FiniteSetTheorems, TLAPS

\* An instant of the horizon falls on a day that the counters know.
LEMMA DayOfTime ==
  ASSUME NEW t \in Times
  PROVE  Day(t) \in Days
BY DEF Days

\* The empty account is sound at every instant.
LEMMA EmptyIsSound ==
  ASSUME NEW t \in Times
  PROVE  Sound(EmptyLedger, t)
<1> USE LedgerAssumption, NoneAssumption
<1> DEFINE l == EmptyLedger
<1>1. l \in Ledgers
  BY DEF Ledgers, EmptyLedger
<1>2. IsFiniteSet(l.done)
  BY FS_EmptySet DEF EmptyLedger
<1>3. Dominated(l, t) /\ Apart(l)
  BY DEF EmptyLedger, Dominated, Apart
<1>4. WithinBudget(l)
  <2>1. ASSUME NEW d \in Days PROVE TripsOn(l, d) = {} /\ OpenOn(l, d) = 0
    BY DEF EmptyLedger, TripsOn, OpenOn
  <2>2. ASSUME NEW d \in Days PROVE Cardinality(TripsOn(l, d)) = 0
    BY <2>1, FS_EmptySet, Zenon
  <2>3. ASSUME NEW d \in Days PROVE l.entries[d] = 0
    BY DEF EmptyLedger
  <2>4. 0 <= MaxEntries
    BY DEF LedgerAssumption
  <2> QED
    BY <2>1, <2>2, <2>3, <2>4 DEF WithinBudget
<1> QED
  BY <1>1, <1>2, <1>3, <1>4 DEF Sound

\* A sound ledger stays sound while nothing but the clock moves.
LEMMA SoundLater ==
  ASSUME NEW t \in Times, NEW later \in Times, t <= later, NEW l, Sound(l, t)
  PROVE  Sound(l, later)
<1> USE LedgerAssumption, NoneAssumption
<1>1. Dominated(l, later)
  BY DEF Sound, Ledgers, OpenOrders, Dominated, Times
<1> QED
  BY <1>1 DEF Sound

\* An entry is separated from the closed round trips by the last exit, and it
\* is counted once, on its own day.
LEMMA EnterIsSound ==
  ASSUME NEW t \in Times, NEW s \in Times, NEW l, Sound(l, t), CanEnter(l, t)
  PROVE  Sound(Enter(l, s, t), t)
<1> USE LedgerAssumption, NoneAssumption
<1> DEFINE m == Enter(l, s, t)
<1>1. /\ l \in Ledgers /\ IsFiniteSet(l.done)
      /\ Dominated(l, t) /\ Apart(l) /\ WithinBudget(l)
  BY DEF Sound
<1>2. Day(t) \in Days
  BY DayOfTime
<1>3. /\ l.open = None
      /\ l.entries[Day(t)] < MaxEntries
      /\ l.lastExit # None => t >= l.lastExit + Cooldown
  BY DEF CanEnter, CooledDown
<1>4. /\ m.open = [signal |-> s, entry |-> t]
      /\ m.done = l.done
      /\ m.lastExit = l.lastExit
      /\ m.entries = [l.entries EXCEPT ![Day(t)] = @ + 1]
  BY DEF Enter
<1>5. m.open \in OpenOrders /\ m.open # None /\ m.open.entry = t
  BY <1>4 DEF OpenOrders
<1>6. m \in Ledgers
  <2>1. m.entries \in [Days -> Nat]
    BY <1>1, <1>2, <1>4 DEF Ledgers
  <2> QED
    BY <1>1, <1>4, <1>5, <2>1 DEF Ledgers, Enter
<1>7. Dominated(m, t)
  <2>1. l.lastExit # None => l.lastExit \in Int /\ l.lastExit + Cooldown <= t
    BY <1>1, <1>3 DEF Ledgers, Times
  <2> QED
    BY <1>1, <1>4, <1>5, <2>1 DEF Dominated, Times
<1>8. Apart(m)
  <2>1. ASSUME NEW a \in l.done PROVE a.exit + Cooldown <= t
    <3>1. l.lastExit # None /\ a.exit <= l.lastExit
      BY <1>1, <2>1 DEF Dominated
    <3> QED
      BY <1>1, <1>3, <2>1, <3>1 DEF Ledgers, ClosedOrders, Times
  <2> QED
    BY <1>1, <1>4, <1>5, <2>1 DEF Apart
<1>9. WithinBudget(m)
  <2> SUFFICES ASSUME NEW d \in Days
               PROVE  /\ m.entries[d] = Cardinality(TripsOn(m, d)) + OpenOn(m, d)
                      /\ m.entries[d] <= MaxEntries
    BY DEF WithinBudget
  <2>1. TripsOn(m, d) = TripsOn(l, d)
    BY <1>4 DEF TripsOn
  <2>2. OpenOn(l, d) = 0 /\ OpenOn(m, d) = (IF Day(t) = d THEN 1 ELSE 0)
    BY <1>3, <1>5 DEF OpenOn
  <2>3. l.entries[d] = Cardinality(TripsOn(l, d)) + OpenOn(l, d) /\ l.entries[d] <= MaxEntries
    BY <1>1 DEF WithinBudget
  <2>4. l.entries[d] \in Nat
    BY <1>1 DEF Ledgers
  <2>5. m.entries[d] = l.entries[d] + (IF Day(t) = d THEN 1 ELSE 0)
    BY <1>1, <1>2, <1>4, <2>4 DEF Ledgers
  <2>6. Cardinality(TripsOn(l, d)) = l.entries[d]
    <3>1. IsFiniteSet(TripsOn(l, d))
      BY <1>1, FS_Subset DEF TripsOn
    <3> QED
      BY <2>2, <2>3, <2>4, <3>1, FS_CardinalityType
  <2> QED
    BY <1>3, <2>1, <2>2, <2>3, <2>4, <2>5, <2>6
<1> QED
  BY <1>1, <1>4, <1>6, <1>7, <1>8, <1>9 DEF Sound

\* A closed round trip keeps its place on the day it was entered, and becomes
\* the one that dominates.
LEMMA ExitIsSound ==
  ASSUME NEW t \in Times, NEW at \in Times, at <= t,
         NEW l, Sound(l, t), l.open # None, l.open.entry <= at
  PROVE  Sound(Exit(l, at), t)
<1> USE LedgerAssumption, NoneAssumption
<1> DEFINE trip == Closed(l.open, at)
           m == Exit(l, at)
<1>1. /\ l \in Ledgers /\ IsFiniteSet(l.done)
      /\ Dominated(l, t) /\ Apart(l) /\ WithinBudget(l)
  BY DEF Sound
<1>2. /\ m.open = None
      /\ m.done = l.done \union {trip}
      /\ m.lastExit = at
      /\ m.entries = l.entries
  BY DEF Exit
<1>3. l.open \in OpenOrders
  BY <1>1 DEF Ledgers
<1>4. /\ trip \in ClosedOrders
      /\ trip.entry = l.open.entry
      /\ trip.exit = at
      /\ trip.entry <= at
  BY <1>3 DEF Closed, OpenOrders, ClosedOrders
<1>5. m \in Ledgers
  BY <1>1, <1>2, <1>4 DEF Ledgers, Exit
<1>6. IsFiniteSet(m.done)
  BY <1>1, <1>2, FS_AddElement
<1>7. ASSUME NEW a \in l.done
      PROVE  /\ a.exit + Cooldown <= trip.entry
             /\ a.exit <= at
             /\ a.entry <= a.exit
             /\ a # trip
  <2>1. a \in ClosedOrders
    BY <1>1 DEF Ledgers
  <2>2. a.exit + Cooldown <= trip.entry
    BY <1>1, <1>4 DEF Apart
  <2> QED
    BY <1>1, <1>4, <2>1, <2>2 DEF Dominated, ClosedOrders, Times
<1>8. Dominated(m, t)
  BY <1>1, <1>2, <1>4, <1>7 DEF Dominated, Times
<1>9. Apart(m)
  BY <1>1, <1>2, <1>7 DEF Apart
<1>10. WithinBudget(m)
  <2> SUFFICES ASSUME NEW d \in Days
               PROVE  /\ l.entries[d] = Cardinality(TripsOn(m, d)) + OpenOn(m, d)
                      /\ l.entries[d] <= MaxEntries
    BY <1>2 DEF WithinBudget
  <2>1. l.entries[d] = Cardinality(TripsOn(l, d)) + OpenOn(l, d) /\ l.entries[d] <= MaxEntries
    BY <1>1 DEF WithinBudget
  <2>2. OpenOn(m, d) = 0
    BY <1>2 DEF OpenOn
  <2>3. OpenOn(l, d) = (IF Day(trip.entry) = d THEN 1 ELSE 0)
    BY <1>4 DEF OpenOn
  <2>4. IsFiniteSet(TripsOn(l, d)) /\ trip \notin TripsOn(l, d)
    BY <1>1, <1>7, FS_Subset DEF TripsOn
  <2>5. CASE Day(trip.entry) = d
    <3>1. TripsOn(m, d) = TripsOn(l, d) \union {trip}
      BY <1>2, <2>5 DEF TripsOn
    <3>2. Cardinality(TripsOn(m, d)) = Cardinality(TripsOn(l, d)) + 1
      BY <2>4, <3>1, FS_AddElement
    <3> QED
      BY <2>1, <2>2, <2>3, <2>5, <3>2, <2>4, FS_CardinalityType
  <2>6. CASE Day(trip.entry) # d
    <3>1. TripsOn(m, d) = TripsOn(l, d)
      BY <1>2, <2>6 DEF TripsOn
    <3> QED
      BY <2>1, <2>2, <2>3, <2>6, <3>1
  <2> QED
    BY <2>5, <2>6
<1> QED
  BY <1>5, <1>6, <1>8, <1>9, <1>10 DEF Sound

-----------------------------------------------------------------------------
\* The empty ledger is sound at the first time.
LEMMA InitEstablishes == Init => LedgerInv
BY EmptyIsSound DEF Init, LedgerInv

\* Every step of the ledger keeps it sound.
LEMMA NextPreserves == LedgerInv /\ [Next]_vars => LedgerInv'
<1> SUFFICES ASSUME LedgerInv, [Next]_vars PROVE LedgerInv'
  OBVIOUS
<1> USE DEF LedgerInv
<1>1. CASE Tick
  <2>1. now' \in Times /\ now <= now' /\ ledger' = ledger
    BY <1>1, LedgerAssumption DEF Tick, Times
  <2> QED BY <2>1, SoundLater
<1>2. CASE Open
  <2>1. PICK s \in Times : CanEnter(ledger, now) /\ ledger' = Enter(ledger, s, now) /\ now' = now
    <3>1. \A s \in 0 .. now : s \in Times
      BY LedgerAssumption DEF Times
    <3> QED BY <1>2, <3>1 DEF Open
  <2>2. Sound(Enter(ledger, s, now), now)
    BY <2>1, EnterIsSound
  <2> QED BY <2>1, <2>2, Zenon
<1>3. CASE Close
  <2>1. ledger.open # None /\ ledger' = Exit(ledger, now) /\ now' = now
    BY <1>3 DEF Close
  <2>2. ledger.open.entry <= now
    BY <2>1 DEF Sound, Dominated
  <2> QED BY <2>1, <2>2, ExitIsSound, LedgerAssumption DEF Times
<1>4. CASE UNCHANGED vars
  BY <1>4 DEF vars
<1> QED
  BY <1>1, <1>2, <1>3, <1>4 DEF Next

\* The inductive invariant holds in every state.
THEOREM LedgerInvariant == Spec => []LedgerInv
BY InitEstablishes, NextPreserves, PTL DEF Spec

\* The account and the clock keep their types.
THEOREM LedgerTypes == Spec => []TypeOK
BY LedgerInvariant, PTL DEF LedgerInv, Sound, TypeOK

\* No two round trips of the account overlap or come closer than the
\* cool-down, whatever the order of entries, exits and clock steps.
THEOREM LedgerRoundTripsApart == Spec => []RoundTripsApart
BY LedgerInvariant, PTL DEF LedgerInv, Sound, RoundTripsApart

\* No UTC day sees more entries than the limit, and the counter that enforces
\* it is the number of round trips entered on that day.
THEOREM LedgerEntryBudgetKept == Spec => []EntryBudgetKept
BY LedgerInvariant, PTL DEF LedgerInv, Sound, EntryBudgetKept
=============================================================================
