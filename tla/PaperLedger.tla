---------------------------- MODULE PaperLedger ----------------------------
(***************************************************************************)
(* What the paper account promises about time: round trips that do not     *)
(* overlap, a cool-down between them, a budget of entries per UTC day.     *)
(* PaperEngine, with its prices, fees and exit rules, implements this      *)
(* specification; ForwardRunner runs its operators under crashes.          *)
(***************************************************************************)
EXTENDS Ledger

VARIABLES now, ledger
vars == <<now, ledger>>

Init == now \in Times /\ ledger = EmptyLedger

\* The wall clock, which does not go backwards.
Tick == now' \in now .. Horizon /\ UNCHANGED ledger

\* PaperExecutionEngine.process_signal opens a position on a signal that
\* closed at or before the decision.
Open == \E s \in 0 .. now :
          /\ CanEnter(ledger, now)
          /\ ledger' = Enter(ledger, s, now)
          /\ UNCHANGED now

\* PaperExecutionEngine._close, whatever the reason of the exit.
Close == /\ ledger.open # None
         /\ ledger' = Exit(ledger, now)
         /\ UNCHANGED now

Next == Tick \/ Open \/ Close

Spec == Init /\ [][Next]_vars

-----------------------------------------------------------------------------
\* The types of the clock and of the account.
TypeOK == now \in Times /\ ledger \in Ledgers

\* Any two round trips of the account are at least the cool-down apart, the
\* open one included: the account never holds two positions and never enters
\* within 30 minutes of an exit, whichever exit that was.
RoundTripsApart == Apart(ledger)

\* The counter that limits a day's entries (daily_entries) counts the round
\* trips entered on that day, those still open and those closed on a later day
\* included, and it never exceeds the limit.
EntryBudgetKept == WithinBudget(ledger)

\* The inductive invariant.
LedgerInv == now \in Times /\ Sound(ledger, now)
=============================================================================
