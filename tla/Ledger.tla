------------------------------- MODULE Ledger -------------------------------
(***************************************************************************)
(* The part of the paper account that the trading rules read: which round  *)
(* trip is open, which ones are closed, when the last one was closed and   *)
(* how many were opened on each UTC day (ForwardPaperState, its fields     *)
(* position, trades, last_exit_time and daily_entries).  Prices are left   *)
(* to PaperEngine.                                                         *)
(*                                                                         *)
(* A ledger is a value, so that the runner can hold one in memory and a    *)
(* different one in its checkpoint file.                                   *)
(***************************************************************************)
EXTENDS Integers, FiniteSets

CONSTANTS
  None,        \* no open position, no exit yet
  Cooldown,    \* delay after an exit before the next entry (30 minutes)
  DayLength,   \* length of a UTC day
  MaxEntries,  \* entries allowed in one day (3)
  Horizon      \* bound: the last instant that is modelled

ASSUME LedgerAssumption ==
  /\ Cooldown \in Nat \ {0}
  /\ DayLength \in Nat \ {0}
  /\ MaxEntries \in Nat
  /\ Horizon \in Nat

Times == 0 .. Horizon

Day(t) == t \div DayLength
Days == {Day(t) : t \in Times}

OpenOrders == [signal : Times, entry : Times]
ClosedOrders == [signal : Times, entry : Times, exit : Times]

ASSUME NoneAssumption == None \notin OpenOrders /\ None \notin Int

Ledgers ==
  [open : OpenOrders \union {None},
   done : SUBSET ClosedOrders,
   lastExit : Times \union {None},
   entries : [Days -> Nat]]

EmptyLedger ==
  [open |-> None, done |-> {}, lastExit |-> None, entries |-> [d \in Days |-> 0]]

(***************************************************************************)
(* The entry rules that do not depend on prices.                           *)
(***************************************************************************)
CooledDown(l, t) == l.lastExit # None => t >= l.lastExit + Cooldown

\* Fault: the day's entries are not looked at.
CanEnterWithoutBudget(l, t) == l.open = None /\ CooledDown(l, t)

CanEnter(l, t) ==
  /\ l.open = None
  /\ l.entries[Day(t)] < MaxEntries
  /\ CooledDown(l, t)

\* Fault: an entry counts for the day of its signal.
EnterCountedAtSignal(l, s, t) ==
  [open |-> [signal |-> s, entry |-> t],
   done |-> l.done,
   lastExit |-> l.lastExit,
   entries |-> [l.entries EXCEPT ![Day(s)] = @ + 1]]

Enter(l, s, t) ==
  [open |-> [signal |-> s, entry |-> t],
   done |-> l.done,
   lastExit |-> l.lastExit,
   entries |-> [l.entries EXCEPT ![Day(t)] = @ + 1]]

Closed(order, t) == [signal |-> order.signal, entry |-> order.entry, exit |-> t]

Exit(l, t) ==
  [open |-> None,
   done |-> l.done \union {Closed(l.open, t)},
   lastExit |-> t,
   entries |-> l.entries]

-----------------------------------------------------------------------------
(***************************************************************************)
(* What the account promises about the round trips of a ledger.            *)
(***************************************************************************)
Apart(l) ==
  /\ \A a, b \in l.done :
        \/ a = b
        \/ a.exit + Cooldown <= b.entry
        \/ b.exit + Cooldown <= a.entry
  /\ l.open # None => \A a \in l.done : a.exit + Cooldown <= l.open.entry

TripsOn(l, d) == {a \in l.done : Day(a.entry) = d}
OpenOn(l, d) == IF l.open # None /\ Day(l.open.entry) = d THEN 1 ELSE 0

WithinBudget(l) ==
  \A d \in Days :
    /\ l.entries[d] = Cardinality(TripsOn(l, d)) + OpenOn(l, d)
    /\ l.entries[d] <= MaxEntries

(***************************************************************************)
(* The strengthening that makes them inductive: the last exit dominates    *)
(* every recorded instant, and a round trip ends after it begins.          *)
(***************************************************************************)
Dominated(l, t) ==
  /\ l.lastExit = None => l.done = {}
  /\ l.lastExit # None =>
        /\ l.lastExit <= t
        /\ \A a \in l.done : a.exit <= l.lastExit
        /\ l.open # None => l.lastExit + Cooldown <= l.open.entry
  /\ l.open # None => l.open.entry <= t
  /\ \A a \in l.done : a.entry <= a.exit

Sound(l, t) ==
  /\ l \in Ledgers
  /\ IsFiniteSet(l.done)
  /\ Dominated(l, t)
  /\ Apart(l)
  /\ WithinBudget(l)
=============================================================================
